---- MODULE Spec2Model ----
(***************************************************************************)
(* A model of the dev.md agent:                                            *)
(*   - the Markdown response parser     (src/src/parser/markdown.ts)       *)
(*   - the agent control loop           (src/src/agent/loop.ts)            *)
(*   - the command tool and the background process registry                *)
(*                                      (src/src/tools/command.ts)         *)
(*   - the session store                (src/unnamed/part_005)             *)
(*                                                                         *)
(* A text is a sequence of lines (the text split at "\n"); a line is a     *)
(* string of a small alphabet, and what the code asks of a line            *)
(* (startsWith, a regular expression, trim) is a table over the alphabet.  *)
(***************************************************************************)
EXTENDS Integers, Sequences, FiniteSets, TLC

(***************************************************************************)
(* Configuration (src/src/config/index.ts, DEFAULTS and loadConfig). The   *)
(* values are those of a config file with small limits.                    *)
(***************************************************************************)
maxLoops == 2
maxRetries == 1
maxRetriesAutomated == 2
maxContextTokens == 60

(***************************************************************************)
(* Lines                                                                   *)
(***************************************************************************)
marker == "# Agent Response"

\* fullResponse.lastIndexOf(marker) looks for the marker anywhere in a line
HasMarker(l) == l \in {"# Agent Response", "draft # Agent Response"}

\* the part of a line from its (last) marker on
FromMarker(l) == IF HasMarker(l) THEN marker ELSE l

\* line.match(/^([BT~]{3,})/), a backtick being written <bt>
IsFence(l) == l \in {"<bt3>", "<bt4>", "<bt3>bash", "~~~"}
FenceCharOf(l) == IF l = "~~~" THEN "~" ELSE "<bt>"
FenceLenOf(l) == IF l = "<bt4>" THEN 4 ELSE 3
\* line.trim().match(/^[BT~]+$/)
IsBareFence(l) == l \in {"<bt3>", "<bt4>", "~~~"}

StartsWithThoughts(l) == l \in {"## Thoughts"}
StartsWithTaskList(l) == l \in {"## Task List"}
StartsWithToolChoice(l) == l \in {"## Tool Choice"}
StartsWithToolInput(l) == l \in {"## Tool Input"}

TOOL_NAMES ==
  {"LIST_DIRECTORY", "READ_FILE", "WRITE_FILE", "FIND_AND_REPLACE_IN_FILE",
   "COMMAND", "UPDATE_TASK_LIST", "ASK_USER", "DONE",
   "READ_BACKGROUND_PROCESS", "LIST_BACKGROUND_PROCESSES", "KILL_BACKGROUND_PROCESS"}

\* line.trim().toUpperCase()
TrimUpper(l) ==
  CASE l = "done" -> "DONE"
    [] l = " COMMAND " -> "COMMAND"
    [] OTHER -> l

\* line.match(/^\[([x~\s])\]\s*(.+)$/i): the status character and the text
IsTaskLine(l) == l \in {"[x] t1", "[~] t2", "[ ] t3", "[X] t4"}
TaskOf(l) ==
  CASE l = "[x] t1" -> [status |-> "complete", text |-> "t1"]
    [] l = "[~] t2" -> [status |-> "in-progress", text |-> "t2"]
    [] l = "[X] t4" -> [status |-> "pending", text |-> "t4"]
    [] OTHER -> [status |-> "pending", text |-> "t3"]

\* a line of white space only
IsBlank(l) == l \in {"", " "}
\* String.prototype.trim on the first and on the last line of a text
TrimLine(l) ==
  CASE l = " COMMAND " -> "COMMAND"
    [] OTHER -> l

(***************************************************************************)
(* Texts                                                                   *)
(***************************************************************************)
\* x += (x ? '\n' : '') + line, the empty string being the empty sequence
AppendLine(x, l) ==
  IF x = <<>> THEN (IF l = "" THEN <<>> ELSE <<l>>) ELSE Append(x, l)

RECURSIVE DropLeadingBlank(_)
DropLeadingBlank(x) ==
  IF x = <<>> THEN <<>>
  ELSE IF IsBlank(Head(x)) THEN DropLeadingBlank(Tail(x)) ELSE x

RECURSIVE DropTrailingBlank(_)
DropTrailingBlank(x) ==
  IF x = <<>> THEN <<>>
  ELSE IF IsBlank(x[Len(x)]) THEN DropTrailingBlank(SubSeq(x, 1, Len(x) - 1)) ELSE x

\* String.prototype.trim of a text
Trim(x) ==
  LET y == DropTrailingBlank(DropLeadingBlank(x))
  IN  [i \in 1..Len(y) |-> IF i = 1 \/ i = Len(y) THEN TrimLine(y[i]) ELSE y[i]]

(***************************************************************************)
(* parseResponse                                                           *)
(***************************************************************************)
NoTool == ""

ParserInit ==
  [thoughts |-> <<>>, taskList |-> <<>>, tools |-> <<>>,
   currentSection |-> "", currentTool |-> NoTool, currentInput |-> <<>>,
   inCodeBlock |-> FALSE, fenceChar |-> "", fenceLen |-> 0]

\* a plausible slip: unshift for push
finishCurrentToolFirst(st) ==
  IF st.currentTool # NoTool
  THEN [st EXCEPT !.tools = <<[toolChoice |-> st.currentTool,
                               toolInput |-> Trim(st.currentInput)]>> \o @,
                  !.currentTool = NoTool,
                  !.currentInput = <<>>]
  ELSE st

finishCurrentTool(st) ==
  IF st.currentTool # NoTool
  THEN [st EXCEPT !.tools = Append(@, [toolChoice |-> st.currentTool,
                                        toolInput |-> Trim(st.currentInput)]),
                  !.currentTool = NoTool,
                  !.currentInput = <<>>]
  ELSE st

\* a plausible slip: the length of the closing fence not compared
TrackFenceAnyLength(st, line) ==
  IF ~IsFence(line) THEN st
  ELSE IF ~st.inCodeBlock
       THEN [st EXCEPT !.inCodeBlock = TRUE,
                       !.fenceChar = FenceCharOf(line),
                       !.fenceLen = FenceLenOf(line)]
       ELSE IF /\ FenceCharOf(line) = st.fenceChar
               /\ IsBareFence(line)
            THEN [st EXCEPT !.inCodeBlock = FALSE, !.fenceLen = 0]
            ELSE st

\* lines 60-79: the fence state after the line
TrackFence(st, line) ==
  IF ~IsFence(line) THEN st
  ELSE IF ~st.inCodeBlock
       THEN [st EXCEPT !.inCodeBlock = TRUE,
                       !.fenceChar = FenceCharOf(line),
                       !.fenceLen = FenceLenOf(line)]
       ELSE IF /\ FenceCharOf(line) = st.fenceChar
               /\ FenceLenOf(line) >= st.fenceLen
               /\ IsBareFence(line)
            THEN [st EXCEPT !.inCodeBlock = FALSE, !.fenceLen = 0]
            ELSE st

\* a plausible slip: any name taken for a tool
AccumulateAnyName(st, line) ==
  CASE st.currentSection = "thoughts" ->
         [st EXCEPT !.thoughts = AppendLine(@, line)]
    [] st.currentSection = "taskList" ->
         IF IsTaskLine(line) THEN [st EXCEPT !.taskList = Append(@, TaskOf(line))] ELSE st
    [] st.currentSection = "toolChoice" ->
         IF st.currentTool = NoTool /\ ~IsBlank(line)
         THEN [st EXCEPT !.currentTool = TrimUpper(line)]
         ELSE st
    [] st.currentSection = "toolInput" ->
         [st EXCEPT !.currentInput = AppendLine(@, line)]
    [] OTHER -> st

\* lines 115-137: the line added to the current section
Accumulate(st, line) ==
  CASE st.currentSection = "thoughts" ->
         [st EXCEPT !.thoughts = AppendLine(@, line)]
    [] st.currentSection = "taskList" ->
         IF IsTaskLine(line) THEN [st EXCEPT !.taskList = Append(@, TaskOf(line))] ELSE st
    [] st.currentSection = "toolChoice" ->
         IF st.currentTool = NoTool /\ TrimUpper(line) \in TOOL_NAMES
         THEN [st EXCEPT !.currentTool = TrimUpper(line)]
         ELSE st
    [] st.currentSection = "toolInput" ->
         [st EXCEPT !.currentInput = AppendLine(@, line)]
    [] OTHER -> st

\* a plausible slip: no header honoured inside a code block
ParseLineNoPragma(st0, line) ==
  LET st == TrackFence(st0, line)
      shouldRecognizeHeader == ~st.inCodeBlock
  IN  IF shouldRecognizeHeader /\ StartsWithThoughts(line)
      THEN [finishCurrentTool(st) EXCEPT !.currentSection = "thoughts", !.inCodeBlock = FALSE]
      ELSE IF shouldRecognizeHeader /\ StartsWithTaskList(line)
      THEN [finishCurrentTool(st) EXCEPT !.currentSection = "taskList", !.inCodeBlock = FALSE]
      ELSE IF shouldRecognizeHeader /\ StartsWithToolChoice(line)
      THEN [finishCurrentTool(st) EXCEPT !.currentSection = "toolChoice", !.inCodeBlock = FALSE]
      ELSE IF shouldRecognizeHeader /\ StartsWithToolInput(line)
      THEN [st EXCEPT !.currentSection = "toolInput", !.inCodeBlock = FALSE]
      ELSE Accumulate(st, line)

\* lines 57-138: one turn of the for loop
ParseLine(st0, line) ==
  LET st == TrackFence(st0, line)
      isToolChoiceHeader == StartsWithToolChoice(line)
      isToolInputHeader == StartsWithToolInput(line)
      shouldRecognizeHeader ==
        \/ ~st.inCodeBlock
        \/ (st.currentSection = "toolInput" /\ (isToolChoiceHeader \/ isToolInputHeader))
  IN  IF shouldRecognizeHeader /\ StartsWithThoughts(line)
      THEN [finishCurrentTool(st) EXCEPT !.currentSection = "thoughts", !.inCodeBlock = FALSE]
      ELSE IF shouldRecognizeHeader /\ StartsWithTaskList(line)
      THEN [finishCurrentTool(st) EXCEPT !.currentSection = "taskList", !.inCodeBlock = FALSE]
      ELSE IF shouldRecognizeHeader /\ isToolChoiceHeader
      THEN [finishCurrentTool(st) EXCEPT !.currentSection = "toolChoice", !.inCodeBlock = FALSE]
      ELSE IF shouldRecognizeHeader /\ isToolInputHeader
      THEN [st EXCEPT !.currentSection = "toolInput", !.inCodeBlock = FALSE]
      ELSE Accumulate(st, line)

RECURSIVE ParseLines(_, _)
ParseLines(st, lines) ==
  IF lines = <<>> THEN st ELSE ParseLines(ParseLine(st, Head(lines)), Tail(lines))

\* fullResponse.lastIndexOf(marker): the last line holding the marker, 0 for none
LastMarkerLine(r) ==
  LET S == {i \in 1..Len(r) : HasMarker(r[i])}
  IN  IF S = {} THEN 0 ELSE CHOOSE i \in S : \A j \in S : j <= i

\* a plausible slip: the response parsed from its first line
SliceFromStart(r) == r

\* fullResponse.slice(lastIdx)
SliceFromMarker(r) ==
  LET k == LastMarkerLine(r)
  IN  <<FromMarker(r[k])>> \o SubSeq(r, k + 1, Len(r))

Null == [null |-> TRUE]

parseResponse(fullResponse) ==
  IF LastMarkerLine(fullResponse) = 0 THEN Null
  ELSE LET section == SliceFromMarker(fullResponse)
           st == finishCurrentTool(ParseLines(ParserInit, section))
       IN  IF Len(st.tools) = 0 THEN Null
           ELSE [null |-> FALSE,
                 thoughts |-> Trim(st.thoughts),
                 taskList |-> st.taskList,
                 tools |-> st.tools,
                 raw |-> section,
                 toolChoice |-> st.tools[1].toolChoice,
                 toolInput |-> st.tools[1].toolInput]

(***************************************************************************)
(* Messages and sessions (src/unnamed/part_005: Message, Session)          *)
(***************************************************************************)
Msg(role, content) == [role |-> role, content |-> content]

RECURSIVE SumLineLen(_)
SumLineLen(text) ==
  IF text = <<>> THEN 0 ELSE Len(Head(text)) + SumLineLen(Tail(text))

\* content.length: the lines and the "\n" between them
ContentLength(text) ==
  IF text = <<>> THEN 0 ELSE SumLineLen(text) + (Len(text) - 1)

RECURSIVE SumContentLength(_)
SumContentLength(messages) ==
  IF messages = <<>> THEN 0
  ELSE ContentLength(Head(messages).content) + SumContentLength(Tail(messages))

\* Math.ceil(n / 4)
CeilDiv4(n) == (n + 3) \div 4

estimateTokens(messages) == CeilDiv4(SumContentLength(messages))

\* a plausible slip: > for >=
needsCompressionStrict(messages) == estimateTokens(messages) > maxContextTokens

\* loop.ts 169-172
needsCompression(messages) == estimateTokens(messages) >= maxContextTokens

\* JSON.stringify(session) written to <id>.json: the fields of the session
SessionFile(h, tl, tt, cs) ==
  [history |-> h, taskList |-> tl, totalTokens |-> tt, compressions |-> cs]

(***************************************************************************)
(* What the environment may answer                                         *)
(***************************************************************************)
originalPrompt == <<"do the task">>

\* buildSystemPrompt(automated, cwd)
systemPrompt(automated) ==
  IF automated THEN <<"SYSTEM PROMPT (automated)">> ELSE <<"SYSTEM PROMPT">>

RespNoMarker == <<"draft", "DONE">>
RespNoTool == <<"draft", "# Agent Response", "## Thoughts", "hm">>
RespCommand ==
  <<"# Agent Response", "## Tool Choice", "DONE",
    "draft # Agent Response", "## Task List", "[x] t1",
    "## Tool Choice", "COMMAND", "## Tool Input", "ls">>
RespDone ==
  <<"# Agent Response", "## Tool Choice", "DONE", "## Tool Input", "finished">>
RespCommandDoneWrite ==
  <<"# Agent Response", "## Task List", "[~] t2",
    "## Tool Choice", "COMMAND", "## Tool Input", "ls",
    "## Tool Choice", "DONE", "## Tool Input", "finished",
    "## Tool Choice", "WRITE_FILE", "## Tool Input", "f.txt">>
RespAskCommand ==
  <<"# Agent Response", "## Tool Choice", "ASK_USER", "## Tool Input", "which file?",
    "## Tool Choice", "COMMAND", "## Tool Input", "ls">>

\* the responses the model may stream
Responses ==
  {RespNoMarker, RespNoTool, RespCommand, RespDone, RespCommandDoneWrite, RespAskCommand}

\* getTokenCount(): the content chunks of the response just streamed, for a
\* server that sends one chunk a line
getTokenCount(response) == Len(response)

\* what executeTool may do: return a result, or throw
ToolOutcomes == {"ok", "ERROR: failed", "throw"}

\* the result string of an outcome (loop.ts 85-90)
ResultOf(outcome) == IF outcome = "throw" THEN "ERROR: boom" ELSE outcome

\* a plausible slip: only a returned error stops the turn, not a thrown one
StartsWithERRORReturned(result) == result = "ERROR: failed"

\* result.startsWith('ERROR')
StartsWithERROR(result) ==
  result \in {"ERROR: failed", "ERROR: boom", "ERROR: ASK_USER is disabled in automated mode (-p)"}

\* what the user may type at the prompt of ASK_USER: an answer, or nothing
Answers == {"yes", ""}

\* a plausible slip: the mode not looked at
askUserAlways(answer, a) == IF answer = "" THEN "(no response)" ELSE answer

\* part_003 4-14: the answer read from the terminal, unless automated
askUser(answer, a) ==
  IF a THEN "ERROR: ASK_USER is disabled in automated mode (-p)"
  ELSE IF answer = "" THEN "(no response)" ELSE answer

\* the summaries the compression call may return
Summaries == {<<"summary">>, <<"a long summary of everything that happened so far, step by step, tool by tool, file by file, line by line, with every command that was run and every result that came back from it, in full">>}

\* the feedback of a failed audit
AuditFeedback == <<"Overall: FAIL">>

\* performThinking: a reflection, an empty one, or the text of a failure
ThinkingResults ==
  {[thinking |-> <<"reflection">>, tokens |-> CeilDiv4(ContentLength(<<"reflection">>))],
   [thinking |-> <<>>, tokens |-> 0],
   [thinking |-> <<"(Thinking failed: boom)">>, tokens |-> 0]}

formatComplaint ==
  <<"ERROR: Your response was not in the correct format. Please use the exact format specified with # Agent Response, ## Thoughts, ## Task List, ## Tool Choice, and ## Tool Input sections.">>

(***************************************************************************)
(* The command tool and the background registry (src/src/tools/command.ts) *)
(***************************************************************************)
VARIABLES
  invocations,   \* the executeCommand calls so far, each with its closure
  processes,     \* const processes = new Map<string, BackgroundProcess>()
  procCounter

cmdVars == <<invocations, processes, procCounter>>

(***************************************************************************)
(* The agent loop (src/src/agent/loop.ts) and the end of program.action    *)
(* (src/src/context/index.ts 397-402)                                      *)
(***************************************************************************)
VARIABLES
  pc,               \* where runAgentLoop is
  automated,        \* options.automated
  thinkingEnabled,  \* ui/thinking.ts: the thinking-mode flag
  history,          \* session.history
  taskList,         \* session.taskList
  totalTokens,      \* session.totalTokens
  compressions,     \* session.compressions
  disk,             \* the session file
  loops,
  retries,
  parsedTools,      \* parsed.tools of the turn
  ti,               \* the index of the for loop over parsed.tools
  toolResults,
  hitDone,
  doneSummary,
  exitCode,         \* the exit code of the process, -1 while it runs
  outcome,          \* how runAgentLoop ended: "" while it runs
  callLog,          \* history variable: the outcome of every main-loop model call
  bodyRuns,         \* history variable: the times the loop body was entered
  executed,         \* history variable: the tools handed to executeTool this turn
  sent,             \* history variable: <<messages>> of the last main-loop request
  savedByLoop       \* history variable: the loop has called saveSession

loopVars ==
  <<pc, automated, thinkingEnabled, history, taskList, totalTokens, compressions,
    disk, loops, retries, parsedTools, ti, toolResults, hitDone, doneSummary,
    exitCode, outcome, callLog, bodyRuns, executed, sent, savedByLoop>>

(***************************************************************************)
(* The auditor (src/unnamed/part_008, runAudit) and the working directory  *)
(***************************************************************************)
VARIABLES
  auditPc,        \* where runAudit is: "idle" before the call
  auditMessages,  \* const messages: Message[]
  auditLoops,     \* let loops
  auditResult,    \* what runAudit returned
  auditLast,      \* history variable: <<response>> of the last audit-model call
  workFiles       \* the files of session.workingDirectory: path -> <<text>>, <<>> for none

auditVars == <<auditPc, auditMessages, auditLoops, auditResult, auditLast, workFiles>>

(***************************************************************************)
(* The session store (src/unnamed/part_005) and the commands of the CLI    *)
(* that read it (src/src/context/index.ts)                                 *)
(***************************************************************************)
VARIABLES
  sessFiles,   \* the sessions directory: file name -> content
  live,        \* the session object the running process holds, <<>> for none
  now,         \* Date.now(), in days
  nextId,      \* the uuids handed out so far
  lastSaved,   \* history variable: directory -> <<the session last saved for it>>
  sweeps,      \* history variable: the parity of the calls of cleanOldSessions
  cliOutcome   \* how the last command of the CLI ended

storeVars == <<sessFiles, live, now, nextId, lastSaved, sweeps, cliOutcome>>

MaxSessions == 2
MaxTime == 2
\* config.sessionRetentionDays
sessionRetentionDays == 1

\* the working directories dev is started in
Dirs == {"/d1", "/d2"}

\* uuid(): the k-th identifier
NewId(k) == "s" \o ToString(k)

\* join(getSessionsDir(), id + '.json') and getMapPath (part_005 22)
SessionFileName(id) == id \o ".json"
MapFileName == "directory-map.json"
FileNames == {SessionFileName(NewId(k)) : k \in 1..MaxSessions} \cup {MapFileName}

\* the contents of a file: none, text that is no JSON, a session, the map
Absent == [kind |-> "absent"]
Corrupt == [kind |-> "corrupt"]

\* the content of a file that is JSON but no session: the text {}
EmptyObject == [kind |-> "object"]
SessionContent(id, dir, t) ==
  [kind |-> "session", id |-> id, workingDirectory |-> dir, updatedAt |-> t]
MapContent(m) == [kind |-> "map", map |-> m]
EmptyMap == [d \in Dirs |-> ""]

\* an empty sessions directory, no session in memory
StoreIdle ==
  /\ sessFiles = [f \in FileNames |-> Absent]
  /\ live = <<>>
  /\ now = 0
  /\ nextId = 0
  /\ lastSaved = [d \in Dirs |-> <<>>]
  /\ sweeps = 0
  /\ cliOutcome = [kind |-> "", id |-> "", ids |-> <<>>]

(***************************************************************************)
(* One call of parseResponse (src/src/parser/markdown.ts 29-153), a line   *)
(* of the for loop at a time                                               *)
(***************************************************************************)
VARIABLE
  parse   \* the call: its place, its argument, the lines still to read, the
          \* locals of the function, its return value, and two history
          \* fields: the count of the tool calls begun, and the tool sections
          \* the argument was written from (where it was)

MaxLines == 5

NoParse ==
  [pc |-> "idle", fullResponse |-> <<>>, lines |-> <<>>, st |-> ParserInit,
   assembled |-> 0, result |-> <<>>, sections |-> <<>>]

ParseIdle == parse = NoParse

(***************************************************************************)
(* One WRITE_FILE and one READ_FILE through executeTool                    *)
(* (src/src/tools/index.ts 11-25)                                          *)
(***************************************************************************)
VARIABLE
  fileCall   \* the two calls: their place, the path and the content the
             \* input of WRITE_FILE was written from, that input, and the
             \* results of the two calls

NoFileCall ==
  [pc |-> "idle", path |-> "", content |-> <<>>, input |-> <<>>,
   written |-> <<>>, read |-> <<>>]

FileIdle == fileCall = NoFileCall

(***************************************************************************)
(* One call of streamCompletion (src/src/agent/api.ts 10-74), a read of    *)
(* the response body at a time                                             *)
(***************************************************************************)
VARIABLE
  stream   \* the call: its place, whether the response is a 2xx, the body
           \* of the response, the part of it not read yet, and the locals
           \* buffer and fullContent

NoStream ==
  [pc |-> "idle", ok |-> TRUE, body |-> <<>>, rest |-> <<>>, buffer |-> <<>>,
   fullContent |-> ""]

StreamIdle == stream = NoStream

\* what each part leaves alone
nonLoopVars == <<cmdVars, auditVars, storeVars, parse, fileCall, stream>>
nonCmdVars == <<loopVars, auditVars, storeVars, parse, fileCall, stream>>

\* the paths of the working directory
WorkPaths == {"a.txt", "b.txt"}

\* no audit is running
AuditIdle ==
  /\ auditPc = "idle"
  /\ auditMessages = <<>>
  /\ auditLoops = 0
  /\ auditResult = <<>>
  /\ auditLast = <<>>
  /\ workFiles = [p \in WorkPaths |-> IF p = "a.txt" THEN <<<<"content">>>> ELSE <<>>]

\* loop.ts 20
MaxRetriesFor(a) == IF a THEN maxRetriesAutomated ELSE maxRetries

\* a plausible slip: the history is taken as stored
EnsureSystemPromptSkipped(h, sp) == h

\* loop.ts 24-28
EnsureSystemPrompt(h, sp) ==
  IF Len(h) > 0 /\ h[1].role = "system" THEN h ELSE <<Msg("system", sp)>> \o h

\* a plausible slip: <= for <
LoopCondInclusive(n) == n <= maxLoops

\* loop.ts 33: loops++ < config.maxLoops, on the value before the increment
LoopCond(n) == n < maxLoops

\* a plausible slip: DONE handed to the dispatcher like any other tool
IsDoneNever(tool) == FALSE

\* loop.ts 79
IsDone(tool) == tool = "DONE"

\* a plausible slip: the reset forgotten
RetriesKept(r) == r

\* loop.ts 62: retries after a response that parsed
RetriesAfterParsed(r) == 0

\* a plausible slip: the stream stored as it came
AssistantContentWholeStream(parsed, response) == response

\* loop.ts 63: the content of the assistant message of a parsed response
AssistantContent(parsed, response) == parsed.raw

\* loop.ts 92
FormatResult(tool, result) == "[" \o tool \o "]: " \o result

\* toolResults.join('\n\n') after "Tool results:\n" (loop.ts 103)
RECURSIVE JoinResults(_)
JoinResults(rs) ==
  IF rs = <<>> THEN <<>>
  ELSE IF Len(rs) = 1 THEN <<rs[1]>>
  ELSE <<rs[1], "">> \o JoinResults(Tail(rs))

ToolResultsContent(rs) == <<"Tool results:">> \o JoinResults(rs)

\* a plausible slip: the feedback pushed without its header
AuditFailedContentBare(feedback) == feedback

\* loop.ts 146-149
AuditFailedContent(feedback) ==
  <<"AUDIT FAILED. Please address the following issues:", "">> \o feedback

\* loop.ts 115-118
ThinkingContent(thinking) == <<"[Internal Reasoning]">> \o thinking

\* compressContext (loop.ts 191-197)
CompressedMessages(sp, summary) ==
  <<Msg("system", sp),
    Msg("user", <<"[CONTEXT SUMMARY]", "">> \o summary
                \o <<"", "[ORIGINAL REQUEST]", "">> \o originalPrompt)>>

\* the histories of the sessions program.action hands to runAgentLoop: a fresh
\* -p session, a session whose user message was stored without a system
\* message, and a session stored by an earlier run
StoredHistories ==
  {<<>>,
   <<Msg("user", originalPrompt)>>,
   <<Msg("system", <<"SYSTEM PROMPT (earlier)">>), Msg("user", originalPrompt),
     Msg("assistant", SliceFromMarker(RespCommand)),
     Msg("user", ToolResultsContent(<<FormatResult("COMMAND", "ok")>>))>>}

Init ==
  /\ pc = "entry"
  /\ automated \in BOOLEAN
  /\ thinkingEnabled \in BOOLEAN
  /\ (automated => ~thinkingEnabled)
  /\ history \in StoredHistories
  /\ (~automated => history # <<>>)
  /\ taskList = <<>>
  /\ totalTokens = 0
  /\ compressions = <<>>
  /\ disk = SessionFile(history, taskList, totalTokens, compressions)
  /\ loops = 0
  /\ retries = 0
  /\ parsedTools = <<>>
  /\ ti = 1
  /\ toolResults = <<>>
  /\ hitDone = FALSE
  /\ doneSummary = <<>>
  /\ exitCode = -1
  /\ outcome = ""
  /\ callLog = <<>>
  /\ bodyRuns = 0
  /\ executed = <<>>
  /\ sent = <<>>
  /\ savedByLoop = FALSE
  /\ invocations = <<>>
  /\ processes = <<>>
  /\ procCounter = 0
  /\ AuditIdle
  /\ StoreIdle
  /\ ParseIdle
  /\ FileIdle
  /\ StreamIdle

turnVars == <<parsedTools, ti, toolResults, hitDone, doneSummary, executed>>
sessionVars == <<history, taskList, totalTokens, compressions, disk, savedByLoop>>
modeVars == <<automated, thinkingEnabled>>

\* loop.ts 19-31
RunAgentLoopEntry ==
  /\ pc = "entry"
  /\ history' = EnsureSystemPrompt(history, systemPrompt(automated))
  /\ loops' = 0
  /\ retries' = 0
  /\ pc' = "loopHead"
  /\ UNCHANGED <<nonLoopVars, modeVars, taskList, totalTokens, compressions, disk, savedByLoop,
                 turnVars, exitCode, outcome, callLog, bodyRuns, sent>>

\* loop.ts 33-34 and 155: the loop condition, then the compression test
LoopHead ==
  /\ pc = "loopHead"
  /\ loops' = loops + 1
  /\ IF LoopCond(loops)
     THEN /\ bodyRuns' = bodyRuns + 1
          /\ pc' = IF needsCompression(history) THEN "compress" ELSE "stream"
          /\ outcome' = outcome
     ELSE /\ bodyRuns' = bodyRuns
          /\ pc' = "ended"
          /\ outcome' = "capped"
  /\ UNCHANGED <<nonLoopVars, modeVars, sessionVars, retries, turnVars, exitCode, callLog, sent>>

\* loop.ts 35-38 and compressContext (174-208): the summary arrives
CompressContext(summary) ==
  /\ pc = "compress"
  /\ LET messages == CompressedMessages(systemPrompt(automated), summary)
     IN  /\ history' = messages
         /\ compressions' = Append(compressions,
                                   [tokensBefore |-> estimateTokens(history),
                                    tokensAfter |-> estimateTokens(messages)])
  /\ disk' = SessionFile(history', taskList, totalTokens, compressions')
  /\ savedByLoop' = TRUE
  /\ pc' = "stream"
  /\ UNCHANGED <<nonLoopVars, modeVars, taskList, totalTokens, loops, retries, turnVars,
                 exitCode, outcome, callLog, bodyRuns, sent>>

\* loop.ts 35 with streamCompletion (189) throwing: nothing catches it
CompressContextThrows ==
  /\ pc = "compress"
  /\ pc' = "ended"
  /\ outcome' = "thrown: compression"
  /\ UNCHANGED <<nonLoopVars, modeVars, sessionVars, loops, retries, turnVars, exitCode,
                 callLog, bodyRuns, sent>>

\* loop.ts 42-50: streamCompletion throws
StreamThrows ==
  /\ pc = "stream"
  /\ sent' = <<history>>
  /\ callLog' = Append(callLog, "transport")
  /\ retries' = retries + 1
  /\ IF retries' >= MaxRetriesFor(automated)
     THEN pc' = "ended" /\ outcome' = "thrown: transport"
     ELSE pc' = "loopHead" /\ outcome' = outcome
  /\ UNCHANGED <<nonLoopVars, modeVars, sessionVars, loops, turnVars, exitCode, bodyRuns>>

\* a plausible slip: the retry test made before the two messages are pushed
StreamMalformedThrowsFirst(response) ==
  /\ pc = "stream"
  /\ parseResponse(response) = Null
  /\ sent' = <<history>>
  /\ callLog' = Append(callLog, "malformed")
  /\ totalTokens' = totalTokens + getTokenCount(response)
  /\ retries' = retries + 1
  /\ IF retries' >= MaxRetriesFor(automated)
     THEN /\ pc' = "ended" /\ outcome' = "thrown: parse"
          /\ UNCHANGED <<history, disk, savedByLoop>>
     ELSE /\ pc' = "loopHead" /\ outcome' = outcome
          /\ history' = history \o <<Msg("assistant", response), Msg("user", formatComplaint)>>
          /\ disk' = SessionFile(history', taskList, totalTokens', compressions)
          /\ savedByLoop' = TRUE
  /\ UNCHANGED <<nonLoopVars, modeVars, taskList, compressions, loops, turnVars, exitCode, bodyRuns>>

\* loop.ts 43-44 and 52-60: a response that does not parse
StreamMalformed(response) ==
  /\ pc = "stream"
  /\ parseResponse(response) = Null
  /\ sent' = <<history>>
  /\ callLog' = Append(callLog, "malformed")
  /\ totalTokens' = totalTokens + getTokenCount(response)
  /\ history' = history \o <<Msg("assistant", response), Msg("user", formatComplaint)>>
  /\ disk' = SessionFile(history', taskList, totalTokens', compressions)
  /\ savedByLoop' = TRUE
  /\ retries' = retries + 1
  /\ IF retries' >= MaxRetriesFor(automated)
     THEN pc' = "ended" /\ outcome' = "thrown: parse"
     ELSE pc' = "loopHead" /\ outcome' = outcome
  /\ UNCHANGED <<nonLoopVars, modeVars, taskList, compressions, loops, turnVars, exitCode, bodyRuns>>

\* loop.ts 43-44, 52 and 62-71: a response that parses
StreamParsed(response) ==
  /\ pc = "stream"
  /\ parseResponse(response) # Null
  /\ LET parsed == parseResponse(response)
     IN  /\ history' = Append(history, Msg("assistant", AssistantContent(parsed, response)))
         /\ taskList' = parsed.taskList
         /\ parsedTools' = parsed.tools
  /\ sent' = <<history>>
  /\ callLog' = Append(callLog, "parsed")
  /\ totalTokens' = totalTokens + getTokenCount(response)
  /\ retries' = RetriesAfterParsed(retries)
  /\ disk' = SessionFile(history', taskList', totalTokens', compressions)
  /\ savedByLoop' = TRUE
  /\ ti' = 1
  /\ toolResults' = <<>>
  /\ hitDone' = FALSE
  /\ doneSummary' = <<>>
  /\ executed' = <<>>
  /\ pc' = "tools"
  /\ UNCHANGED <<nonLoopVars, modeVars, compressions, loops, exitCode, outcome, bodyRuns>>

\* loop.ts 73 with no tool left
ToolsExhausted ==
  /\ pc = "tools"
  /\ ti > Len(parsedTools)
  /\ pc' = "afterTools"
  /\ UNCHANGED <<nonLoopVars, modeVars, sessionVars, loops, retries, turnVars, exitCode,
                 outcome, callLog, bodyRuns, sent>>

\* loop.ts 79-83
ToolIsDone ==
  /\ pc = "tools"
  /\ ti <= Len(parsedTools)
  /\ IsDone(parsedTools[ti].toolChoice)
  /\ hitDone' = TRUE
  /\ doneSummary' = parsedTools[ti].toolInput
  /\ pc' = "afterTools"
  /\ UNCHANGED <<nonLoopVars, modeVars, sessionVars, loops, retries, parsedTools, ti, toolResults,
                 executed, exitCode, outcome, callLog, bodyRuns, sent>>

\* loop.ts 85-98: executeTool returns or throws
ExecuteTool(o) ==
  /\ pc = "tools"
  /\ ti <= Len(parsedTools)
  /\ ~IsDone(parsedTools[ti].toolChoice)
  /\ parsedTools[ti].toolChoice # "ASK_USER"
  /\ executed' = Append(executed, parsedTools[ti].toolChoice)
  /\ LET result == ResultOf(o)
     IN  /\ toolResults' = Append(toolResults, FormatResult(parsedTools[ti].toolChoice, result))
         /\ IF StartsWithERROR(result)
            THEN pc' = "afterTools" /\ ti' = ti
            ELSE pc' = "tools" /\ ti' = ti + 1
  /\ UNCHANGED <<nonLoopVars, modeVars, sessionVars, loops, retries, parsedTools, hitDone,
                 doneSummary, exitCode, outcome, callLog, bodyRuns, sent>>

\* a plausible slip: the results message pushed without the length test
AfterToolsAlways ==
  /\ pc = "afterTools"
  /\ history' = Append(history, Msg("user", ToolResultsContent(toolResults)))
  /\ disk' = SessionFile(history', taskList, totalTokens, compressions)
  /\ savedByLoop' = TRUE
  /\ pc' = IF thinkingEnabled /\ ~hitDone THEN "thinking"
           ELSE IF hitDone THEN "audit" ELSE "loopHead"
  /\ UNCHANGED <<nonLoopVars, modeVars, taskList, totalTokens, compressions, loops, retries,
                 turnVars, exitCode, outcome, callLog, bodyRuns, sent>>

\* loop.ts 85-98 with index.ts 39-40: executeTool hands ASK_USER to askUser
ExecuteAskUser(answer) ==
  /\ pc = "tools"
  /\ ti <= Len(parsedTools)
  /\ parsedTools[ti].toolChoice = "ASK_USER"
  /\ executed' = Append(executed, "ASK_USER")
  /\ LET result == askUser(answer, automated)
     IN  /\ toolResults' = Append(toolResults, FormatResult("ASK_USER", result))
         /\ IF StartsWithERROR(result)
            THEN pc' = "afterTools" /\ ti' = ti
            ELSE pc' = "tools" /\ ti' = ti + 1
  /\ UNCHANGED <<nonLoopVars, modeVars, sessionVars, loops, retries, parsedTools, hitDone,
                 doneSummary, exitCode, outcome, callLog, bodyRuns, sent>>

\* loop.ts 101-108 and 126: the results of the turn, then thinking, the audit
\* or the next iteration
AfterTools ==
  /\ pc = "afterTools"
  /\ IF Len(toolResults) > 0
     THEN /\ history' = Append(history, Msg("user", ToolResultsContent(toolResults)))
          /\ disk' = SessionFile(history', taskList, totalTokens, compressions)
          /\ savedByLoop' = TRUE
          /\ pc' = IF thinkingEnabled /\ ~hitDone THEN "thinking"
                   ELSE IF hitDone THEN "audit" ELSE "loopHead"
     ELSE /\ UNCHANGED <<history, disk, savedByLoop>>
          /\ pc' = IF hitDone THEN "audit" ELSE "loopHead"
  /\ UNCHANGED <<nonLoopVars, modeVars, taskList, totalTokens, compressions, loops, retries,
                 turnVars, exitCode, outcome, callLog, bodyRuns, sent>>

\* loop.ts 109-121
PerformThinking(t) ==
  /\ pc = "thinking"
  /\ IF t.thinking # <<>>
     THEN /\ history' = Append(history, Msg("assistant", ThinkingContent(t.thinking)))
          /\ totalTokens' = totalTokens + t.tokens
          /\ disk' = SessionFile(history', taskList, totalTokens', compressions)
          /\ savedByLoop' = TRUE
     ELSE UNCHANGED <<history, totalTokens, disk, savedByLoop>>
  /\ pc' = "loopHead"
  /\ UNCHANGED <<nonLoopVars, modeVars, taskList, compressions, loops, retries, turnVars,
                 exitCode, outcome, callLog, bodyRuns, sent>>

\* loop.ts 127-138: the audit passes
RunAuditPass ==
  /\ pc = "audit"
  /\ pc' = "ended"
  /\ outcome' = "audit passed"
  /\ UNCHANGED <<nonLoopVars, modeVars, sessionVars, loops, retries, turnVars, exitCode,
                 callLog, bodyRuns, sent>>

\* loop.ts 127 and 140-151: the audit fails
RunAuditFail ==
  /\ pc = "audit"
  /\ history' = Append(history, Msg("user", AuditFailedContent(AuditFeedback)))
  /\ disk' = SessionFile(history', taskList, totalTokens, compressions)
  /\ savedByLoop' = TRUE
  /\ pc' = "loopHead"
  /\ UNCHANGED <<nonLoopVars, modeVars, taskList, totalTokens, compressions, loops, retries,
                 turnVars, exitCode, outcome, callLog, bodyRuns, sent>>

\* loop.ts 127 with a streamCompletion of runAudit throwing: nothing catches it
RunAuditThrows ==
  /\ pc = "audit"
  /\ pc' = "ended"
  /\ outcome' = "thrown: audit"
  /\ UNCHANGED <<nonLoopVars, modeVars, sessionVars, loops, retries, turnVars, exitCode,
                 callLog, bodyRuns, sent>>

Thrown(o) == o \in {"thrown: compression", "thrown: transport", "thrown: parse", "thrown: audit"}

\* the exit code after runAgentLoop: process.exit(1) in the catch, else the
\* process ends by itself
ExitCodeAfter(o) == IF Thrown(o) THEN 1 ELSE 0

\* context/index.ts 397-402 for a dev -p run: process.exit(1) in the catch,
\* else the process ends with code 0; a run that is not automated is one of
\* interactive mode (472-477), where the error is printed and the prompt
\* comes back
ProgramActionEnd ==
  /\ pc = "ended"
  /\ IF automated
     THEN pc' = "exited" /\ exitCode' = ExitCodeAfter(outcome)
     ELSE pc' = "prompting" /\ exitCode' = exitCode
  /\ UNCHANGED <<nonLoopVars, modeVars, sessionVars, loops, retries, turnVars, outcome,
                 callLog, bodyRuns, sent>>

LoopNext ==
  \/ RunAgentLoopEntry
  \/ LoopHead
  \/ \E summary \in Summaries : CompressContext(summary)
  \/ CompressContextThrows
  \/ StreamThrows
  \/ \E response \in Responses : StreamMalformed(response)
  \/ \E response \in Responses : StreamParsed(response)
  \/ ToolsExhausted
  \/ ToolIsDone
  \/ \E o \in ToolOutcomes : ExecuteTool(o)
  \/ \E answer \in Answers : ExecuteAskUser(answer)
  \/ AfterTools
  \/ \E t \in ThinkingResults : PerformThinking(t)
  \/ RunAuditPass
  \/ RunAuditFail
  \/ RunAuditThrows
  \/ ProgramActionEnd

vars == <<loopVars, cmdVars, auditVars, storeVars, parse, fileCall, stream>>

Next == LoopNext

Spec == Init /\ [][Next]_vars

(***************************************************************************)
(* The command tool (src/src/tools/command.ts): executeCommand, the events *)
(* of its child process and of its timer, and the registry operations.     *)
(* An invocation is the closure of one executeCommand call: resolved,      *)
(* output, the timer and the child process (proc: "running", then          *)
(* "terminated" once the process is gone, then "closed" once the close     *)
(* event was delivered).                                                   *)
(***************************************************************************)
MaxInvocations == 2
MaxOutput == 1

\* the codes a process exits with by itself
ExitCodes == {0, 1}
\* the code of the close event after a failed spawn (a negative errno)
SpawnErrorCode == 0 - 2

\* exitCode: number | null, as <<>> for null and <<code>> for a number
NullCode == <<>>

\* a plausible slip: the entry made with an exit code
PromotedEntryExited(id, handle, output) ==
  [id |-> id, process |-> handle, output |-> output, exitCode |-> <<0>>]

\* command.ts 38
PromotedEntry(id, handle, output) ==
  [id |-> id, process |-> handle, output |-> output, exitCode |-> NullCode]

\* a plausible slip: the counter left out of the id
genIdFixed(counter) == 1

\* command.ts 17: the id holds the counter, followed by four characters of
\* the clock; ids made from different counters differ, whatever the clock
genId(counter) == counter

\* processes.set(id, entry) (command.ts 38): Map.prototype.set puts the
\* entry in the place of one with the same key, or else after the others
MapSet(map, entry) ==
  IF \E k \in 1..Len(map) : map[k].id = entry.id
  THEN [k \in 1..Len(map) |-> IF map[k].id = entry.id THEN entry ELSE map[k]]
  ELSE Append(map, entry)

\* a plausible slip: a handler without its guard
AlreadyResolvedNever(c) == FALSE

\* command.ts 35, 48, 55: if (resolved) return
AlreadyResolved(c) == c.resolved

\* command.ts 65 and 72
StatusOf(p) ==
  IF p.exitCode # NullCode THEN "Exited (" \o ToString(p.exitCode[1]) \o ")" ELSE "Running"

\* command.ts 62-67: the status line and the output of the entry
readBackgroundProcess(id) ==
  IF id \notin DOMAIN processes THEN <<"Process not found">>
  ELSE <<StatusOf(processes[id]), ToString(processes[id].output)>>

\* command.ts 69-76: a line an entry, in the order of the map
listBackgroundProcesses ==
  IF Len(processes) = 0 THEN <<"No background processes">>
  ELSE [k \in 1..Len(processes) |-> StatusOf(processes[k])]

\* command.ts 50
CloseResult(code, output) ==
  IF code = <<0>> THEN (IF output > 0 THEN "output" ELSE "(no output)") ELSE "Exit code"

NewInvocation(spawned) ==
  [proc |-> IF spawned THEN "running" ELSE "terminated",
   spawned |-> spawned,
   code |-> IF spawned THEN NullCode ELSE <<SpawnErrorCode>>,
   signalled |-> FALSE,
   errorPending |-> ~spawned,
   timer |-> "pending",
   resolved |-> FALSE,
   resolvedBy |-> "",
   resolveCalls |-> 0,
   result |-> "",
   output |-> 0,
   id |-> 0]

CmdInit ==
  /\ invocations = <<>>
  /\ processes = <<>>
  /\ procCounter = 0
  /\ pc = "entry"
  /\ automated = TRUE
  /\ thinkingEnabled = FALSE
  /\ history = <<>>
  /\ taskList = <<>>
  /\ totalTokens = 0
  /\ compressions = <<>>
  /\ disk = SessionFile(history, taskList, totalTokens, compressions)
  /\ loops = 0
  /\ retries = 0
  /\ parsedTools = <<>>
  /\ ti = 1
  /\ toolResults = <<>>
  /\ hitDone = FALSE
  /\ doneSummary = <<>>
  /\ exitCode = -1
  /\ outcome = ""
  /\ callLog = <<>>
  /\ bodyRuns = 0
  /\ executed = <<>>
  /\ sent = <<>>
  /\ savedByLoop = FALSE
  /\ AuditIdle
  /\ StoreIdle
  /\ ParseIdle
  /\ FileIdle
  /\ StreamIdle

\* command.ts 19-33: the loop awaits each call, so the calls follow one another
ExecuteCommand(spawned) ==
  /\ Len(invocations) < MaxInvocations
  /\ \A i \in 1..Len(invocations) : invocations[i].resolved
  /\ invocations' = Append(invocations, NewInvocation(spawned))
  /\ UNCHANGED <<processes, procCounter, nonCmdVars>>

\* command.ts 31-32: a chunk of stdout or stderr
StdoutData(i) ==
  /\ invocations[i].spawned
  /\ invocations[i].proc # "closed"
  /\ invocations[i].output < MaxOutput
  /\ invocations' = [invocations EXCEPT ![i].output = @ + 1]
  /\ UNCHANGED <<processes, procCounter, nonCmdVars>>

\* the child process ends: with a code, or by the signal kill() sent
ProcessTerminates(i, code) ==
  /\ invocations[i].proc = "running"
  /\ code = NullCode => invocations[i].signalled
  /\ invocations' = [invocations EXCEPT ![i].proc = "terminated", ![i].code = code]
  /\ UNCHANGED <<processes, procCounter, nonCmdVars>>

\* command.ts 34-44: the timer fires
TimeoutFires(i) ==
  /\ invocations[i].timer = "pending"
  /\ IF AlreadyResolved(invocations[i])
     THEN /\ invocations' = [invocations EXCEPT ![i].timer = "fired"]
          /\ UNCHANGED <<processes, procCounter>>
     ELSE LET id == genId(procCounter + 1)
          IN  /\ procCounter' = procCounter + 1
              /\ processes' = MapSet(processes, PromotedEntry(id, i, invocations[i].output))
              /\ invocations' = [invocations EXCEPT ![i].timer = "fired",
                                                    ![i].resolved = TRUE,
                                                    ![i].resolvedBy = "timeout",
                                                    ![i].resolveCalls = @ + 1,
                                                    ![i].result = "Backgrounded as: proc_",
                                                    ![i].id = id]
  /\ UNCHANGED nonCmdVars

\* the close event: the handler of command.ts 46-51, then the one the
\* promotion added (39-42)
CloseEvent(i) ==
  /\ invocations[i].proc = "terminated"
  /\ ~invocations[i].errorPending
  /\ LET c == invocations[i]
         first == IF AlreadyResolved(c)
                  THEN [c EXCEPT !.timer = IF @ = "pending" THEN "cleared" ELSE @]
                  ELSE [c EXCEPT !.timer = IF @ = "pending" THEN "cleared" ELSE @,
                                 !.resolved = TRUE,
                                 !.resolvedBy = "close",
                                 !.resolveCalls = @ + 1,
                                 !.result = CloseResult(c.code, c.output)]
     IN  /\ invocations' = [invocations EXCEPT ![i] = [first EXCEPT !.proc = "closed"]]
         /\ processes' = IF c.id \in DOMAIN processes
                         THEN [processes EXCEPT ![c.id].exitCode = c.code,
                                                ![c.id].output = c.output]
                         ELSE processes
  /\ UNCHANGED <<procCounter, nonCmdVars>>

\* the error event of a failed spawn (command.ts 53-58)
ErrorEvent(i) ==
  /\ invocations[i].errorPending
  /\ LET c == invocations[i]
     IN  invocations' =
           [invocations EXCEPT ![i] =
              IF AlreadyResolved(c)
              THEN [c EXCEPT !.errorPending = FALSE,
                             !.timer = IF @ = "pending" THEN "cleared" ELSE @]
              ELSE [c EXCEPT !.errorPending = FALSE,
                             !.timer = IF @ = "pending" THEN "cleared" ELSE @,
                             !.resolved = TRUE,
                             !.resolvedBy = "error",
                             !.resolveCalls = @ + 1,
                             !.result = "Error: "]]
  /\ UNCHANGED <<processes, procCounter, nonCmdVars>>

\* command.ts 78-86: what killBackgroundProcess returns; kill() may throw
killBackgroundProcessResult(id, throws) ==
  IF id \notin DOMAIN processes THEN "Process not found"
  ELSE IF processes[id].exitCode # NullCode
       THEN "Process already exited with code " \o ToString(processes[id].exitCode[1])
       ELSE IF throws THEN "Failed to kill process" ELSE "Process killed"

\* command.ts 78-86: kill() signals a process that runs and does nothing to
\* one that is gone
KillBackgroundProcess(id, throws) ==
  /\ invocations' =
       IF killBackgroundProcessResult(id, throws) = "Process killed"
          /\ invocations[processes[id].process].proc = "running"
       THEN [invocations EXCEPT ![processes[id].process].signalled = TRUE]
       ELSE invocations
  /\ UNCHANGED <<processes, procCounter, nonCmdVars>>

CmdNext ==
  \/ \E spawned \in BOOLEAN : ExecuteCommand(spawned)
  \/ \E i \in 1..Len(invocations) : StdoutData(i)
  \/ \E i \in 1..Len(invocations), code \in {NullCode} \cup {<<c>> : c \in ExitCodes} :
       ProcessTerminates(i, code)
  \/ \E i \in 1..Len(invocations) : TimeoutFires(i)
  \/ \E i \in 1..Len(invocations) : CloseEvent(i)
  \/ \E i \in 1..Len(invocations) : ErrorEvent(i)
  \/ \E id \in 1..MaxInvocations, throws \in BOOLEAN : KillBackgroundProcess(id, throws)

CmdSpec == CmdInit /\ [][CmdNext]_vars

(***************************************************************************)
(* The auditor: runAudit (src/unnamed/part_008), the extractors of the     *)
(* parser it uses (markdown.ts 155-198), the read-only filesystem tools    *)
(* (src/unnamed/part_004) and the allow-list (command.ts 88-94).           *)
(***************************************************************************)
\* bound of the audit loop: 20 in the source (part_008 line 28)
auditMaxLoops == 2

\* the smallest and the largest of a nonempty set of indexes
MinOf(S) == CHOOSE i \in S : \A j \in S : i <= j
MaxOf(S) == CHOOSE i \in S : \A j \in S : j <= i

\* a plausible slip: the block ended at the first closing fence
extractCodeBlockFirstClose(input) ==
  LET opens == {i \in 1..Len(input) : IsFence(input[i])}
  IN  IF opens = {} THEN <<>>
      ELSE LET o == MinOf(opens)
               closes == {j \in (o + 1)..Len(input) :
                            IsBareFence(input[j]) /\ FenceCharOf(input[j]) = FenceCharOf(input[o])}
           IN  IF closes = {} THEN <<>>
               ELSE <<DropTrailingBlank(SubSeq(input, o + 1, MinOf(closes) - 1))>>

\* markdown.ts 160-186 without a language: <<>> for null, <<text>> for a block
extractCodeBlock(input) ==
  LET opens == {i \in 1..Len(input) : IsFence(input[i])}
  IN  IF opens = {} THEN <<>>
      ELSE LET o == MinOf(opens)
               closes == {j \in (o + 1)..Len(input) :
                            IsBareFence(input[j]) /\ FenceCharOf(input[j]) = FenceCharOf(input[o])}
           IN  IF closes = {} THEN <<>>
               ELSE <<DropTrailingBlank(SubSeq(input, o + 1, MaxOf(closes) - 1))>>

\* markdown.ts 195-198
extractCommandInput(input) ==
  IF extractCodeBlock(input) # <<>> THEN extractCodeBlock(input)[1] ELSE input

\* the first alternative of the pattern of extractPath: a quoted path
Unquote(l) ==
  CASE l = "\"a.txt\"" -> "a.txt"
    [] OTHER -> TrimLine(l)

\* markdown.ts 155-158: the quoted path or the first line, trimmed
extractPath(input) ==
  IF input = <<>> \/ Head(input) = "" THEN "" ELSE Unquote(Head(input))

\* command.ts 88-94: the patterns are tested at the start of the trimmed
\* command, whatever follows
AllowedLine(l) == l \in {"cat a.txt", "cat a.txt > b.txt", "ls; rm a.txt"}

\* a plausible slip: the allow-list not consulted
isAuditAllowedAny(cmd) == TRUE

isAuditAllowed(cmd) == Trim(cmd) # <<>> /\ AllowedLine(Head(Trim(cmd)))

\* what /bin/sh -c does to the files of cwd (command.ts 23-29)
ShellEffect(cmd, files) ==
  CASE cmd = <<"cat a.txt > b.txt">> ->
         IF files["a.txt"] = <<>> THEN files ELSE [files EXCEPT !["b.txt"] = files["a.txt"]]
    [] cmd = <<"ls; rm a.txt">> -> [files EXCEPT !["a.txt"] = <<>>]
    [] cmd = <<"rm a.txt">> -> [files EXCEPT !["a.txt"] = <<>>]
    [] OTHER -> files

\* part_004 5-18 for a path that is no glob
listDirectory(path, files) ==
  IF path = "."
  THEN (IF \A p \in WorkPaths : files[p] = <<>> THEN <<"(empty directory)">> ELSE <<"listing">>)
  ELSE <<"Directory not found">>

\* part_004 44-49
readFile(path, files) ==
  IF path \in WorkPaths /\ files[path] # <<>> THEN files[path][1] ELSE <<"File not found">>

\* part_004 51-58: the result and the files after it; a path that names no
\* file of the directory (the directory itself, for the empty path) is an
\* error of writeFileSync
writeFile(path, content, files) ==
  IF path \in WorkPaths
  THEN [result |-> <<"File written">>, files |-> [files EXCEPT ![path] = <<content>>]]
  ELSE [result |-> <<"Error writing file">>, files |-> files]

\* text.toLowerCase().includes('fail'), includes('overall: pass') and
\* includes('overall: fail'): the lines that hold the word
LineHasFail(l) == l \in {"Overall: FAIL", "the tests fail"}
LineHasFailLowerCase(l) == l \in {"the tests fail"}
LineHasOverallPass(l) == l \in {"Overall: PASS", "fixed since, overall: pass"}
LineHasOverallFail(l) == l \in {"Overall: FAIL"}

TextHas(text, P(_)) == \E i \in 1..Len(text) : P(text[i])

\* part_008 63: parsed.toolInput || parsed.thoughts
AuditFeedbackOf(parsed) ==
  IF parsed.toolInput # <<>> THEN parsed.toolInput ELSE parsed.thoughts

\* a plausible slip: includes('fail') without toLowerCase()
AuditPassedCaseSensitive(feedback) == ~TextHas(feedback, LineHasFailLowerCase)

\* part_008 64
AuditPassed(feedback) == ~TextHas(feedback, LineHasFail)

\* a plausible slip: the two tests in the other order
ProseVerdictFailFirst(response) ==
  IF TextHas(response, LineHasOverallFail) THEN [passed |-> FALSE, feedback |-> response]
  ELSE [passed |-> TRUE, feedback |-> response]

\* part_008 32-38: the verdict of a response that does not parse
ProseVerdict(response) ==
  IF TextHas(response, LineHasOverallPass) THEN [passed |-> TRUE, feedback |-> response]
  ELSE IF TextHas(response, LineHasOverallFail) THEN [passed |-> FALSE, feedback |-> response]
  ELSE [passed |-> TRUE, feedback |-> response]

\* part_008 19-23 and buildAuditPrompt (part_007 270)
auditPrompt(summary) ==
  <<"You are an audit agent", "## Original User Request">> \o originalPrompt
    \o <<"## Agent's Completion Summary">> \o summary

AuditTool(name, input) == <<"# Agent Response", "## Tool Choice", name, "## Tool Input">> \o input

\* the responses the audit model may stream
AuditResponses ==
  {AuditTool("LIST_DIRECTORY", <<".">>),
   AuditTool("READ_FILE", <<"\"a.txt\"">>),
   AuditTool("COMMAND", <<"cat a.txt">>),
   AuditTool("COMMAND", <<"<bt3>bash", "cat a.txt > b.txt", "<bt3>">>),
   AuditTool("COMMAND", <<"ls; rm a.txt">>),
   AuditTool("COMMAND", <<"rm a.txt">>),
   AuditTool("WRITE_FILE", <<"b.txt">>),
   AuditTool("COMMAND", <<"rm a.txt">>)
     \o <<"## Tool Choice", "DONE", "## Tool Input", "Overall: PASS">>,
   AuditTool("DONE", <<"Overall: PASS">>),
   AuditTool("DONE", <<"Overall: FAIL">>),
   <<"# Agent Response", "## Thoughts", "the tests fail", "## Tool Choice", "DONE">>,
   <<"# Agent Response", "## Tool Choice", "DONE">>,
   <<"Overall: FAIL", "Feedback: missing">>,
   <<"Overall: PASS">>,
   <<"Overall: FAIL", "fixed since, overall: pass">>,
   <<"looks fine">>}

\* a plausible slip: the session history used as the message list of the audit
AuditMessagesAreHistory == TRUE

\* part_008 24: messages is an array of its own, not session.history
AuditMessagesShareHistory == FALSE

\* session.history after the audit pushed to its message list
HistoryAfterAuditPush(h, messages) == IF AuditMessagesShareHistory THEN messages ELSE h

\* part_008 56: the text of the refusal, the command after the colon
NotAllowedResult(cmd) ==
  IF cmd = <<>> THEN <<"ERROR: Command not allowed in audit mode: ">>
  ELSE <<"ERROR: Command not allowed in audit mode: " \o Head(cmd)>> \o Tail(cmd)

\* the result of the tool of an audit response (part_008 46-68) and the files
\* after it
AuditToolResult(parsed, files) ==
  CASE parsed.toolChoice = "LIST_DIRECTORY" ->
         [result |-> listDirectory(extractPath(parsed.toolInput), files), files |-> files]
    [] parsed.toolChoice = "READ_FILE" ->
         [result |-> readFile(extractPath(parsed.toolInput), files), files |-> files]
    [] parsed.toolChoice = "COMMAND" ->
         LET cmd == extractCommandInput(parsed.toolInput)
         IN  IF ~isAuditAllowed(cmd)
             THEN [result |-> NotAllowedResult(cmd), files |-> files]
             ELSE [result |-> <<"command output">>, files |-> ShellEffect(cmd, files)]
    [] OTHER ->
         [result |-> <<"Tool " \o parsed.toolChoice \o " not available in audit mode">>,
          files |-> files]

\* what runAudit leaves alone outside the session
nonAuditVars == <<cmdVars, storeVars, parse, fileCall, stream>>

auditSessionVars ==
  <<pc, automated, thinkingEnabled, taskList, totalTokens, compressions, disk, loops,
    retries, parsedTools, ti, toolResults, hitDone, doneSummary, exitCode, outcome,
    callLog, bodyRuns, executed, sent, savedByLoop>>

\* the sessions runAudit is called with (loop.ts 127)
AuditInit ==
  /\ pc = "audit"
  /\ automated = TRUE
  /\ thinkingEnabled = FALSE
  /\ history \in {<<Msg("system", systemPrompt(TRUE)), Msg("assistant", RespDone)>>,
                  <<Msg("system", systemPrompt(TRUE)),
                    Msg("assistant", SliceFromMarker(RespCommandDoneWrite)),
                    Msg("user", ToolResultsContent(<<FormatResult("COMMAND", "ok")>>))>>}
  /\ taskList \in {<<>>, <<[status |-> "in-progress", text |-> "t2"]>>}
  /\ totalTokens = 5
  /\ compressions = <<>>
  /\ disk = SessionFile(history, taskList, totalTokens, compressions)
  /\ loops = 1
  /\ retries = 0
  /\ parsedTools = <<>>
  /\ ti = 1
  /\ toolResults = <<>>
  /\ hitDone = TRUE
  /\ doneSummary \in {<<"finished">>, <<>>}
  /\ exitCode = -1
  /\ outcome = ""
  /\ callLog = <<"parsed">>
  /\ bodyRuns = 1
  /\ executed = <<>>
  /\ sent = <<>>
  /\ savedByLoop = TRUE
  /\ invocations = <<>>
  /\ processes = <<>>
  /\ procCounter = 0
  /\ AuditIdle
  /\ StoreIdle
  /\ ParseIdle
  /\ FileIdle
  /\ StreamIdle

\* part_008 16-26
RunAuditEntry ==
  /\ auditPc = "idle"
  /\ auditMessages' = <<Msg("system", auditPrompt(doneSummary))>>
  /\ history' = HistoryAfterAuditPush(history, auditMessages')
  /\ auditLoops' = 0
  /\ auditPc' = "loopHead"
  /\ UNCHANGED <<auditResult, auditLast, workFiles, auditSessionVars, nonAuditVars>>

\* a plausible slip: <= for <
AuditLoopHeadInclusive ==
  /\ auditPc = "loopHead"
  /\ auditLoops' = auditLoops + 1
  /\ IF auditLoops <= auditMaxLoops
     THEN auditPc' = "stream" /\ auditResult' = auditResult
     ELSE /\ auditPc' = "returned"
          /\ auditResult' = <<[passed |-> TRUE,
                               feedback |-> <<"Audit completed (max iterations reached)">>]>>
  /\ UNCHANGED <<auditMessages, auditLast, workFiles, history, auditSessionVars, nonAuditVars>>

\* part_008 28 and 74
AuditLoopHead ==
  /\ auditPc = "loopHead"
  /\ auditLoops' = auditLoops + 1
  /\ IF auditLoops < auditMaxLoops
     THEN auditPc' = "stream" /\ auditResult' = auditResult
     ELSE /\ auditPc' = "returned"
          /\ auditResult' = <<[passed |-> TRUE,
                               feedback |-> <<"Audit completed (max iterations reached)">>]>>
  /\ UNCHANGED <<auditMessages, auditLast, workFiles, history, auditSessionVars, nonAuditVars>>

\* part_008 29: streamCompletion throws, and nothing in runAudit catches it
AuditStreamThrows ==
  /\ auditPc = "stream"
  /\ auditPc' = "threw"
  /\ UNCHANGED <<auditMessages, auditLoops, auditResult, auditLast, workFiles, history,
                 auditSessionVars, nonAuditVars>>

\* part_008 29-38: a response that does not parse
AuditProse(response) ==
  /\ auditPc = "stream"
  /\ parseResponse(response) = Null
  /\ auditLast' = <<response>>
  /\ auditResult' = <<ProseVerdict(response)>>
  /\ auditPc' = "returned"
  /\ UNCHANGED <<auditMessages, auditLoops, workFiles, history, auditSessionVars, nonAuditVars>>

\* part_008 29-30, 41 and 62-65: a response whose tool is DONE
AuditDone(response) ==
  /\ auditPc = "stream"
  /\ parseResponse(response) # Null
  /\ parseResponse(response).toolChoice = "DONE"
  /\ LET parsed == parseResponse(response)
         feedback == AuditFeedbackOf(parsed)
     IN  /\ auditMessages' = Append(auditMessages, Msg("assistant", parsed.raw))
         /\ auditResult' = <<[passed |-> AuditPassed(feedback), feedback |-> feedback]>>
  /\ history' = HistoryAfterAuditPush(history, auditMessages')
  /\ auditLast' = <<response>>
  /\ auditPc' = "returned"
  /\ UNCHANGED <<auditLoops, workFiles, auditSessionVars, nonAuditVars>>

\* part_008 29-30, 41, 46-61 and 66-71: a response with another tool
AuditToolCall(response) ==
  /\ auditPc = "stream"
  /\ parseResponse(response) # Null
  /\ parseResponse(response).toolChoice # "DONE"
  /\ LET parsed == parseResponse(response)
         r == AuditToolResult(parsed, workFiles)
     IN  /\ auditMessages' = auditMessages \o <<Msg("assistant", parsed.raw),
                                                Msg("user", <<"Tool result:">> \o r.result)>>
         /\ workFiles' = r.files
  /\ history' = HistoryAfterAuditPush(history, auditMessages')
  /\ auditLast' = <<response>>
  /\ auditPc' = "loopHead"
  /\ UNCHANGED <<auditLoops, auditResult, auditSessionVars, nonAuditVars>>

AuditNext ==
  \/ RunAuditEntry
  \/ AuditLoopHead
  \/ AuditStreamThrows
  \/ \E response \in AuditResponses : AuditProse(response)
  \/ \E response \in AuditResponses : AuditDone(response)
  \/ \E response \in AuditResponses : AuditToolCall(response)

AuditSpec == AuditInit /\ [][AuditNext]_vars

\* runAudit is one sequential async function: a step that can be taken is
\* taken
AuditLiveSpec == AuditInit /\ [][AuditNext]_vars /\ WF_vars(AuditNext)

(***************************************************************************)
(* The session store (src/unnamed/part_005): the operations on the files   *)
(* of the sessions directory, and the commands of the CLI that use them    *)
(* (src/src/context/index.ts 357-390 and 420-439). A thrown exception is   *)
(* the value Threw; try/catch is Caught.                                   *)
(***************************************************************************)
Threw == [kind |-> "threw"]

\* try { v } catch { fallback }
Caught(v, fallback) == IF v = Threw THEN fallback ELSE v

\* JSON.parse(readFileSync(path)) of a file that exists
ParseJSON(content) == IF content.kind = "corrupt" THEN Threw ELSE content

\* existsSync(path)
Exists(files, f) == f \in FileNames /\ files[f] # Absent

\* part_005 24-28
loadDirMap(files) ==
  IF ~Exists(files, MapFileName) THEN EmptyMap
  ELSE LET v == Caught(ParseJSON(files[MapFileName]), MapContent(EmptyMap))
       IN  IF v.kind = "map" THEN v.map ELSE EmptyMap

\* a plausible slip: JSON.parse outside a try
loadSessionNoCatch(files, id) ==
  IF ~Exists(files, SessionFileName(id)) THEN Null
  ELSE ParseJSON(files[SessionFileName(id)])

\* part_005 63-67
loadSession(files, id) ==
  IF ~Exists(files, SessionFileName(id)) THEN Null
  ELSE Caught(ParseJSON(files[SessionFileName(id)]), Null)

\* a plausible slip: the session loaded by the working directory of any
\* stored session instead of the map
getLastSessionForDirFirst(files, dir) ==
  LET S == {f \in FileNames : files[f].kind = "session" /\ files[f].workingDirectory = dir}
  IN  IF S = {} THEN Null ELSE files[CHOOSE f \in S : TRUE]

\* part_005 69-73
getLastSessionForDir(files, dir) ==
  LET id == loadDirMap(files)[dir]
  IN  IF id # "" THEN loadSession(files, id) ELSE Null

\* part_005 79 and 91: f.endsWith('.json') && f !== 'directory-map.json'
IsSessionFile(f) == f # MapFileName

\* readdirSync(dir): the names of the files that exist
ReadDir(files) == {f \in FileNames : files[f] # Absent}

\* the place of a file name in the listing of the directory
NameIndex(f) ==
  IF f = MapFileName THEN 0
  ELSE CHOOSE k \in 1..MaxSessions : SessionFileName(NewId(k)) = f

\* new Date(session.updatedAt).getTime(): <<>> for NaN
UpdatedAtOf(content) == IF content.kind = "session" THEN <<content.updatedAt>> ELSE <<>>

\* Array.prototype.sort with (a, b) => b.updatedAt - a.updatedAt over the
\* parsed files, in the order of the listing where the dates are equal
RECURSIVE SortByUpdatedAtDesc(_, _)
SortByUpdatedAtDesc(files, names) ==
  IF names = {} THEN <<>>
  ELSE LET first == CHOOSE f \in names :
                      \A g \in names :
                        \/ files[f].updatedAt > files[g].updatedAt
                        \/ /\ files[f].updatedAt = files[g].updatedAt
                           /\ NameIndex(f) <= NameIndex(g)
       IN  <<files[first]>> \o SortByUpdatedAtDesc(files, names \ {first})

\* part_005 76-81: the files whose parsed content listSessions keeps
ListedNames(files) ==
  {f \in ReadDir(files) : IsSessionFile(f) /\ Caught(ParseJSON(files[f]), Null) # Null}

\* part_005 75-83, where every parsed content has a date (the comparator
\* returns NaN for one that has none)
listSessions(files) == SortByUpdatedAtDesc(files, ListedNames(files))

\* a plausible slip: <= for <
IsOlderInclusive(u, cutoff) == u # <<>> /\ u[1] <= cutoff

\* part_005 95: new Date(session.updatedAt).getTime() < cutoff
IsOlder(u, cutoff) == u # <<>> /\ u[1] < cutoff

\* part_005 85-102 at time t
cleanOldSessions(files, t) ==
  LET cutoff == t - sessionRetentionDays
  IN  [f \in FileNames |->
         IF /\ f \in ReadDir(files)
            /\ IsSessionFile(f)
            /\ ParseJSON(files[f]) # Threw
            /\ IsOlder(UpdatedAtOf(ParseJSON(files[f])), cutoff)
         THEN Absent
         ELSE files[f]]

\* part_005 54-61 at time t: the session as written
Saved(session, t) == [session EXCEPT !.updatedAt = t]

saveSession(files, session, t) ==
  [files EXCEPT ![SessionFileName(session.id)] = Saved(session, t),
                ![MapFileName] =
                   MapContent([loadDirMap(files) EXCEPT ![session.workingDirectory] = session.id])]

NoOutcome == [kind |-> "", id |-> "", ids |-> <<>>]
Outcome(kind, id, ids) == [kind |-> kind, id |-> id, ids |-> ids]

RECURSIVE IdsOf(_)
IdsOf(sessions) ==
  IF sessions = <<>> THEN <<>> ELSE <<Head(sessions).id>> \o IdsOf(Tail(sessions))

\* no agent loop, no command and no audit under way
OthersIdle ==
  /\ AuditIdle
  /\ FileIdle
  /\ invocations = <<>>
  /\ processes = <<>>
  /\ procCounter = 0
  /\ pc = "entry"
  /\ automated = TRUE
  /\ thinkingEnabled = FALSE
  /\ history = <<>>
  /\ taskList = <<>>
  /\ totalTokens = 0
  /\ compressions = <<>>
  /\ disk = SessionFile(history, taskList, totalTokens, compressions)
  /\ loops = 0
  /\ retries = 0
  /\ parsedTools = <<>>
  /\ ti = 1
  /\ toolResults = <<>>
  /\ hitDone = FALSE
  /\ doneSummary = <<>>
  /\ exitCode = -1
  /\ outcome = ""
  /\ callLog = <<>>
  /\ bodyRuns = 0
  /\ executed = <<>>
  /\ sent = <<>>
  /\ savedByLoop = FALSE

StoreInit == StoreIdle /\ ParseIdle /\ StreamIdle /\ OthersIdle

nonStoreVars == <<loopVars, cmdVars, auditVars, parse, fileCall, stream>>

\* part_005 34-52 at time now, in directory dir: the files after it
CreateIn(files, dir) ==
  saveSession(files, SessionContent(NewId(nextId + 1), dir, now), now)

\* context/index.ts 357-359 and 382-387: dev -p, or dev without arguments
ProgramNew(dir) ==
  /\ nextId < MaxSessions
  /\ nextId' = nextId + 1
  /\ sessFiles' = CreateIn(cleanOldSessions(sessFiles, now), dir)
  /\ live' = <<SessionContent(NewId(nextId'), dir, now)>>
  /\ lastSaved' = [lastSaved EXCEPT ![dir] = live']
  /\ sweeps' = 1 - sweeps
  /\ cliOutcome' = Outcome("created", NewId(nextId'), <<>>)
  /\ UNCHANGED <<now, nonStoreVars>>

\* context/index.ts 457-458: "new" in interactive mode
InteractiveNew ==
  /\ live # <<>>
  /\ nextId < MaxSessions
  /\ nextId' = nextId + 1
  /\ sessFiles' = CreateIn(sessFiles, live[1].workingDirectory)
  /\ live' = <<SessionContent(NewId(nextId'), live[1].workingDirectory, now)>>
  /\ lastSaved' = [lastSaved EXCEPT ![live[1].workingDirectory] = live']
  /\ cliOutcome' = Outcome("created", NewId(nextId'), <<>>)
  /\ UNCHANGED <<now, sweeps, nonStoreVars>>

\* a saveSession of the agent loop, after it changed the session
SaveSession ==
  /\ live # <<>>
  /\ LET session == live[1]
     IN  /\ sessFiles' = saveSession(sessFiles, session, now)
         /\ live' = <<Saved(session, now)>>
         /\ lastSaved' = [lastSaved EXCEPT ![session.workingDirectory] = live']
  /\ UNCHANGED <<now, nextId, sweeps, cliOutcome, nonStoreVars>>

\* the command found the session, found none, or died of an exception
LoadOutcome(v, missing, asked) ==
  IF v = Threw THEN Outcome("uncaught", asked, <<>>)
  ELSE IF v = Null THEN Outcome(missing, asked, <<>>)
  ELSE IF v.kind = "session" THEN Outcome("resumed", v.id, <<>>)
  ELSE Outcome("resumed", "undefined", <<>>)

\* the session the process goes on with: runAgentLoop throws inside the try
\* of context/index.ts 397-402 for an object that has no history
LiveAfterLoad(v) == IF v # Threw /\ v # Null /\ v.kind = "session" THEN <<v>> ELSE <<>>

\* context/index.ts 357-359 and 368-374: dev --session <id>
DevSession(id) ==
  /\ sessFiles' = cleanOldSessions(sessFiles, now)
  /\ sweeps' = 1 - sweeps
  /\ LET v == loadSession(sessFiles', id)
     IN  /\ cliOutcome' = LoadOutcome(v, "Session not found", id)
         /\ live' = LiveAfterLoad(v)
  /\ UNCHANGED <<now, nextId, lastSaved, nonStoreVars>>

\* context/index.ts 357-359 and 375-381: dev --resume in dir
DevResume(dir) ==
  /\ sessFiles' = cleanOldSessions(sessFiles, now)
  /\ sweeps' = 1 - sweeps
  /\ LET v == getLastSessionForDir(sessFiles', dir)
     IN  /\ cliOutcome' = LoadOutcome(v, "No previous session found in this directory", "")
         /\ live' = LiveAfterLoad(v)
  /\ UNCHANGED <<now, nextId, lastSaved, nonStoreVars>>

\* context/index.ts 420-439: dev sessions list
\* s.originalPrompt.slice(0, 50) at 431 is a TypeError for an object that has
\* no originalPrompt, and nothing catches it
DevSessionsList ==
  /\ cliOutcome' =
       IF \E f \in ListedNames(sessFiles) : sessFiles[f].kind # "session"
       THEN Outcome("uncaught", "", <<>>)
       ELSE Outcome("listed", "", IdsOf(listSessions(sessFiles)))
  /\ live' = <<>>
  /\ UNCHANGED <<sessFiles, now, nextId, lastSaved, sweeps, nonStoreVars>>

\* a day passes
Tick ==
  /\ now < MaxTime
  /\ now' = now + 1
  /\ UNCHANGED <<sessFiles, live, nextId, lastSaved, sweeps, cliOutcome, nonStoreVars>>

\* the content of a session file is damaged: it is no JSON any more, or it
\* is JSON that is no session
CorruptFile(f, content) ==
  /\ f # MapFileName
  /\ sessFiles[f].kind = "session"
  /\ sessFiles' = [sessFiles EXCEPT ![f] = content]
  /\ UNCHANGED <<live, now, nextId, lastSaved, sweeps, cliOutcome, nonStoreVars>>

StoreNext ==
  \/ \E dir \in Dirs : ProgramNew(dir)
  \/ InteractiveNew
  \/ SaveSession
  \/ \E id \in {NewId(k) : k \in 0..MaxSessions} : DevSession(id)
  \/ \E dir \in Dirs : DevResume(dir)
  \/ DevSessionsList
  \/ Tick
  \/ \E f \in FileNames, content \in {Corrupt, EmptyObject} : CorruptFile(f, content)

StoreSpec == StoreInit /\ [][StoreNext]_vars

(***************************************************************************)
(* parseResponse, run on every response of up to MaxLines lines            *)
(***************************************************************************)
\* the lines a response is made of
ResponseLines ==
  {"# Agent Response", "draft # Agent Response", "## Tool Choice", "## Tool Input",
   "done", "ls", "<bt3>"}

ResponsesUpTo(n) == UNION {[1..k -> ResponseLines] : k \in 0..n}

ParseInit ==
  /\ parse \in {[NoParse EXCEPT !.pc = "entry", !.fullResponse = r] : r \in ResponsesUpTo(MaxLines)}
  /\ StoreIdle
  /\ StreamIdle
  /\ OthersIdle

\* markdown.ts 30-47
ParseEntry ==
  /\ parse.pc = "entry"
  /\ parse' =
       IF LastMarkerLine(parse.fullResponse) = 0
       THEN [parse EXCEPT !.pc = "returned", !.result = <<Null>>]
       ELSE [parse EXCEPT !.pc = "lines", !.lines = SliceFromMarker(parse.fullResponse)]
  /\ UNCHANGED <<loopVars, cmdVars, auditVars, storeVars, fileCall, stream>>

\* markdown.ts 57-138: one line; a tool call is begun where currentTool is set
ParseOneLine ==
  /\ parse.pc = "lines"
  /\ parse.lines # <<>>
  /\ LET st == ParseLine(parse.st, Head(parse.lines))
     IN  parse' = [parse EXCEPT
                     !.st = st,
                     !.lines = Tail(parse.lines),
                     !.assembled = IF st.currentTool # NoTool /\ parse.st.currentTool = NoTool
                                   THEN @ + 1 ELSE @]
  /\ UNCHANGED <<loopVars, cmdVars, auditVars, storeVars, fileCall, stream>>

\* markdown.ts 140-152
ParseReturn ==
  /\ parse.pc = "lines"
  /\ parse.lines = <<>>
  /\ LET st == finishCurrentTool(parse.st)
         section == SliceFromMarker(parse.fullResponse)
     IN  parse' = [parse EXCEPT
                     !.pc = "returned",
                     !.st = st,
                     !.result =
                       IF Len(st.tools) = 0 THEN <<Null>>
                       ELSE <<[null |-> FALSE,
                               thoughts |-> Trim(st.thoughts),
                               taskList |-> st.taskList,
                               tools |-> st.tools,
                               raw |-> section,
                               toolChoice |-> st.tools[1].toolChoice,
                               toolInput |-> st.tools[1].toolInput]>>]
  /\ UNCHANGED <<loopVars, cmdVars, auditVars, storeVars, fileCall, stream>>

ParseNext == ParseEntry \/ ParseOneLine \/ ParseReturn

ParseSpec == ParseInit /\ [][ParseNext]_vars

(***************************************************************************)
(* parseResponse, run on responses written section by section: a head and  *)
(* up to MaxTools tool sections, whose inputs are those of the tests of    *)
(* the parser (src/unnamed/part_001 32-191)                                *)
(***************************************************************************)
MaxTools == 2

\* a command
InputPlain == <<"ls">>

\* part_001 80-90: a file whose code block holds a line "## Tool Choice"
InputHeaderInFence == <<"f.txt", "", "<bt3>", "## Tool Choice", "ls", "<bt3>">>

\* part_001 155-171: a README in a 3-backtick block that holds a 3-backtick
\* block of its own
InputReadme == <<"f.txt", "", "<bt3>bash", "<bt3>bash", "ls", "<bt3>", "<bt3>">>

\* part_001 113-125: a file in a 4-backtick block that holds a 3-backtick
\* block, and a line "## Thoughts" after it
InputNested == <<"f.txt", "", "<bt4>", "<bt3>bash", "ls", "<bt3>", "## Thoughts", "<bt4>">>

\* a command, and after it a header that is none of the four and a line of
\* notes
InputOtherHeader == <<"ls", "## Notes", "more">>

ToolInputs == {InputPlain, InputHeaderInFence, InputReadme, InputNested, InputOtherHeader}

\* the tool names as a model writes them
WrittenNames == {"WRITE_FILE", "done"}

ToolSections == [name : WrittenNames, input : ToolInputs]

SectionsUpTo(n) == UNION {[1..k -> ToolSections] : k \in 1..n}

ResponseHead == <<"# Agent Response", "## Thoughts", "hm", "## Task List", "[~] t2">>

SectionLines(sec) == <<"## Tool Choice", sec.name, "", "## Tool Input">> \o sec.input \o <<"">>

RECURSIVE WriteSections(_)
WriteSections(secs) ==
  IF secs = <<>> THEN <<>> ELSE SectionLines(Head(secs)) \o WriteSections(Tail(secs))

WriteResponse(secs) == ResponseHead \o WriteSections(secs)

ToolsInit ==
  /\ parse \in {[NoParse EXCEPT !.pc = "entry",
                                !.fullResponse = WriteResponse(secs),
                                !.sections = secs] : secs \in SectionsUpTo(MaxTools)}
  /\ StoreIdle
  /\ StreamIdle
  /\ OthersIdle

ToolsSpec == ToolsInit /\ [][ParseNext]_vars

(***************************************************************************)
(* WRITE_FILE and then READ_FILE of one path through executeTool           *)
(***************************************************************************)
MaxContentLines == 2

\* the lines of a file content
ContentLines == {"x", "", "<bt3>"}

\* the contents of up to n lines; the empty content is <<>>, and a content
\* whose last line is "" ends with a line feed
ContentsUpTo(n) == (UNION {[1..k -> ContentLines] : k \in 0..n}) \ {<<"">>}

\* the path as the model writes it
PathLines == {"a.txt", "\"a.txt\"", "b.txt"}

\* the fence that closes the block a fence line opens
ClosingFence(fence) == IF fence = "<bt3>bash" THEN "<bt3>" ELSE fence

\* the input of WRITE_FILE as the system prompt asks for it: the path, an
\* empty line, and the content between two fence lines
WriteFileInput(pathLine, content, fence) ==
  <<pathLine, "", fence>> \o (IF content = <<>> THEN <<"">> ELSE content) \o <<ClosingFence(fence)>>

\* tools/index.ts 11-25: the result and the files after the tool
executeTool(tool, input, files) ==
  LET path == extractPath(input)
  IN  CASE tool = "READ_FILE" -> [result |-> readFile(path, files), files |-> files]
        [] tool = "WRITE_FILE" ->
             LET content == extractCodeBlock(input)
             IN  IF content = <<>> \/ content[1] = <<>>
                 THEN [result |-> <<"ERROR: No code block found for WRITE_FILE">>, files |-> files]
                 ELSE writeFile(path, content[1], files)
        [] OTHER -> [result |-> <<"Unknown tool">>, files |-> files]

FileInit ==
  /\ \E pathLine \in PathLines, content \in ContentsUpTo(MaxContentLines),
        fence \in {"<bt3>", "<bt4>", "~~~", "<bt3>bash"} :
       fileCall = [NoFileCall EXCEPT !.pc = "entry",
                                     !.path = Unquote(pathLine),
                                     !.content = content,
                                     !.input = WriteFileInput(pathLine, content, fence)]
  /\ StoreIdle
  /\ ParseIdle
  /\ StreamIdle
  /\ auditPc = "idle"
  /\ auditMessages = <<>>
  /\ auditLoops = 0
  /\ auditResult = <<>>
  /\ auditLast = <<>>
  /\ workFiles \in [WorkPaths -> {<<>>, <<<<"old">>>>}]
  /\ invocations = <<>>
  /\ processes = <<>>
  /\ procCounter = 0
  /\ pc = "entry"
  /\ automated = TRUE
  /\ thinkingEnabled = FALSE
  /\ history = <<>>
  /\ taskList = <<>>
  /\ totalTokens = 0
  /\ compressions = <<>>
  /\ disk = SessionFile(history, taskList, totalTokens, compressions)
  /\ loops = 0
  /\ retries = 0
  /\ parsedTools = <<>>
  /\ ti = 1
  /\ toolResults = <<>>
  /\ hitDone = FALSE
  /\ doneSummary = <<>>
  /\ exitCode = -1
  /\ outcome = ""
  /\ callLog = <<>>
  /\ bodyRuns = 0
  /\ executed = <<>>
  /\ sent = <<>>
  /\ savedByLoop = FALSE

nonFileVars ==
  <<loopVars, cmdVars, storeVars, parse, stream, auditPc, auditMessages, auditLoops,
    auditResult, auditLast>>

\* executeTool('WRITE_FILE', input, ctx)
ExecuteWriteFile ==
  /\ fileCall.pc = "entry"
  /\ LET r == executeTool("WRITE_FILE", fileCall.input, workFiles)
     IN  /\ workFiles' = r.files
         /\ fileCall' = [fileCall EXCEPT !.pc = "written", !.written = r.result]
  /\ UNCHANGED nonFileVars

\* executeTool('READ_FILE', path, ctx)
ExecuteReadFile ==
  /\ fileCall.pc = "written"
  /\ LET r == executeTool("READ_FILE", <<fileCall.path>>, workFiles)
     IN  /\ workFiles' = r.files
         /\ fileCall' = [fileCall EXCEPT !.pc = "read", !.read = r.result]
  /\ UNCHANGED nonFileVars

FileNext == ExecuteWriteFile \/ ExecuteReadFile

FileSpec == FileInit /\ [][FileNext]_vars

(***************************************************************************)
(* streamCompletion (src/src/agent/api.ts 10-74). A text is a sequence of  *)
(* pieces, each a run of characters no read splits: "\n" is the line feed, *)
(* "\r" a carriage return, "data: " the six characters of the prefix, "{", *)
(* "}" the opening and the closing of the JSON object of a frame, "a" and  *)
(* "b" the part of it that gives choices[0].delta.content that value.      *)
(***************************************************************************)
MaxFrames == 2

\* the lines a body is written from
FrameLines ==
  {<<"data: ", "{", "a", "}">>,
   <<"data: ", "{", "b", "}">>,
   <<"data: ", "{", "a", "}", "\r">>,
   <<"data: ", "{", "}">>,
   <<"data: ", "{", "a">>,
   <<"data: ", "[DONE]">>,
   <<>>}

RECURSIVE JoinLines(_)
JoinLines(lines) ==
  IF Len(lines) = 1 THEN lines[1]
  ELSE lines[1] \o <<"\n">> \o JoinLines(Tail(lines))

\* the bodies of the responses: one to MaxFrames lines, the last one ended by
\* a line feed or not
Bodies ==
  UNION {{JoinLines(ls) : ls \in [1..k -> FrameLines]} \cup
         {JoinLines(ls) \o <<"\n">> : ls \in [1..k -> FrameLines]} : k \in 1..MaxFrames}

\* api.ts 52: buffer.split('\n')
RECURSIVE SplitLines(_)
SplitLines(text) ==
  IF \A i \in 1..Len(text) : text[i] # "\n" THEN <<text>>
  ELSE LET i == CHOOSE j \in 1..Len(text) :
                  text[j] = "\n" /\ \A k \in 1..(j - 1) : text[k] # "\n"
       IN  <<SubSeq(text, 1, i - 1)>> \o SplitLines(SubSeq(text, i + 1, Len(text)))

\* api.ts 57: String.prototype.trim
RECURSIVE TrimData(_)
TrimData(text) ==
  IF text = <<>> THEN <<>>
  ELSE IF Head(text) \in {" ", "\r"} THEN TrimData(Tail(text))
  ELSE IF text[Len(text)] \in {" ", "\r"} THEN TrimData(SubSeq(text, 1, Len(text) - 1))
  ELSE text

\* api.ts 61-62: JSON.parse(data) and json.choices?.[0]?.delta?.content; a
\* parse that throws is caught at 68
DeltaContent(data) ==
  IF Len(data) = 3 /\ data[1] = "{" /\ data[2] \in {"a", "b"} /\ data[3] = "}"
  THEN data[2]
  ELSE ""

\* api.ts 56-68: what one line adds to fullContent
LineContent(line) ==
  IF line = <<>> \/ Head(line) # "data: " THEN ""
  ELSE LET data == TrimData(Tail(line))
       IN  IF data = <<"[DONE]">> THEN "" ELSE DeltaContent(data)

\* api.ts 55-69: the for loop over the lines
RECURSIVE ProcessLines(_, _)
ProcessLines(fullContent, lines) ==
  IF lines = <<>> THEN fullContent
  ELSE ProcessLines(fullContent \o LineContent(Head(lines)), Tail(lines))

StreamInit ==
  /\ stream \in {[NoStream EXCEPT !.pc = "entry", !.ok = ok, !.body = body, !.rest = body] :
                   ok \in BOOLEAN, body \in Bodies}
  /\ StoreIdle
  /\ ParseIdle
  /\ OthersIdle

nonStreamVars == <<loopVars, cmdVars, auditVars, storeVars, parse, fileCall>>

\* api.ts 28-45: the response arrives
StreamEntry ==
  /\ stream.pc = "entry"
  /\ stream' = [stream EXCEPT !.pc = IF stream.ok THEN "reading" ELSE "threw"]
  /\ UNCHANGED nonStreamVars

\* api.ts 48-69: a read that gives the next n pieces of the body
StreamRead(n) ==
  /\ stream.pc = "reading"
  /\ n \in 1..Len(stream.rest)
  /\ LET lines == SplitLines(stream.buffer \o SubSeq(stream.rest, 1, n))
     IN  stream' = [stream EXCEPT
                      !.rest = SubSeq(stream.rest, n + 1, Len(stream.rest)),
                      !.buffer = lines[Len(lines)],
                      !.fullContent =
                        ProcessLines(stream.fullContent, SubSeq(lines, 1, Len(lines) - 1))]
  /\ UNCHANGED nonStreamVars

\* api.ts 48-49, 72-73: the read that reports the end of the body
StreamDone ==
  /\ stream.pc = "reading"
  /\ stream.rest = <<>>
  /\ stream' = [stream EXCEPT !.pc = "returned"]
  /\ UNCHANGED nonStreamVars

StreamNext ==
  \/ StreamEntry
  \/ \E n \in 1..(4 * MaxFrames + 5) : StreamRead(n)
  \/ StreamDone

StreamSpec == StreamInit /\ [][StreamNext]_vars

(***************************************************************************)
(* The agent loop: properties                                              *)
(***************************************************************************)
Last(q) == q[Len(q)]

\* C1: the loop body runs at most maxLoops times, whatever the iterations
\* end in, and so the main loop issues at most maxLoops model requests
C1_LoopBounded ==
  /\ bodyRuns <= maxLoops
  /\ Len(callLog) <= maxLoops

\* the cap reached on a run with a failed call among its iterations
C1_Witness ==
  /\ outcome = "capped"
  /\ bodyRuns = maxLoops
  /\ Len(callLog) = maxLoops
  /\ \E i \in 1..Len(callLog) : callLog[i] # "parsed"

\* C2: a dev -p run exits with code 0 only if an audit returned PASS; the
\* loop cap reached without one ends the run with exit code 1
C2_ExitZeroOnlyAfterAuditPass ==
  (automated /\ exitCode = 0) => outcome = "audit passed"

\* C3: the tools of a response are executed in the listed order, DONE is
\* never handed to executeTool, and no tool listed after a DONE is executed
C3_DoneIsTerminal ==
  /\ Len(executed) <= Len(parsedTools)
  /\ \A i \in 1..Len(executed) :
       /\ executed[i] = parsedTools[i].toolChoice
       /\ executed[i] # "DONE"
  /\ \A k \in 1..Len(parsedTools) :
       parsedTools[k].toolChoice = "DONE" => Len(executed) < k

\* the audit about to run for a response that lists a tool after its DONE
C3_Witness ==
  /\ pc = "audit"
  /\ executed = <<"COMMAND">>
  /\ Len(parsedTools) = 3
  /\ parsedTools[2].toolChoice = "DONE"
  /\ parsedTools[3].toolChoice = "WRITE_FILE"

\* the failed calls at the end of the log
RECURSIVE TrailingFailures(_)
TrailingFailures(log) ==
  IF log = <<>> \/ Last(log) = "parsed" THEN 0
  ELSE 1 + TrailingFailures(SubSeq(log, 1, Len(log) - 1))

C5_DiskEqualsMemory ==
  ((pc = "loopHead" /\ bodyRuns > 0) \/ pc \in {"ended", "exited", "prompting"})
    => disk = SessionFile(history, taskList, totalTokens, compressions)

\* content is r from its final marker on
IsFinalMarkerSlice(content, r) ==
  \E k \in 1..Len(r) :
    /\ HasMarker(r[k])
    /\ \A j \in (k + 1)..Len(r) : ~HasMarker(r[j])
    /\ content = <<marker>> \o SubSeq(r, k + 1, Len(r))

ParsedResponses == {r \in Responses : parseResponse(r) # Null}
UnparsedResponses == {r \in Responses : parseResponse(r) = Null}

C7_SystemMessageFirst ==
  /\ sent # <<>> => (sent[1] # <<>> /\ sent[1][1].role = "system")
  /\ savedByLoop => (disk.history # <<>> /\ disk.history[1].role = "system")

\* a request sent for a resumed session stored without a system message
C7_WitnessResumed ==
  /\ ~savedByLoop
  /\ disk.history # <<>>
  /\ disk.history[1].role # "system"
  /\ sent # <<>>

\* C12: an iteration that starts with the estimate at or above the ceiling
\* compresses before its model call, one that starts below it does not; the
\* compression leaves exactly the system prompt of the loop and one user
\* message made of the summary and the original prompt, appends one record
\* to compressions and saves the session; and the model is called only after
\* that test
C12_CompressionAtCeiling ==
  [][/\ (pc = "loopHead" /\ pc' \in {"compress", "stream"}) =>
          ((estimateTokens(history) >= maxContextTokens) <=> (pc' = "compress"))
     /\ (pc = "compress" /\ pc' = "stream") =>
          /\ Len(history') = 2
          /\ history'[1] = Msg("system", systemPrompt(automated))
          /\ history'[2].role = "user"
          /\ \E summary \in Summaries :
               history'[2].content =
                 <<"[CONTEXT SUMMARY]", "">> \o summary
                   \o <<"", "[ORIGINAL REQUEST]", "">> \o originalPrompt
          /\ Len(compressions') = Len(compressions) + 1
          /\ disk' = [history |-> history', taskList |-> taskList',
                      totalTokens |-> totalTokens', compressions |-> compressions']
     /\ ~(pc = "compress" /\ pc' = "stream") => compressions' = compressions
     /\ callLog' # callLog => pc = "stream"]_vars

\* a history whose estimate is exactly the ceiling was compressed, and the
\* model call of the iteration is next
C12_Witness ==
  /\ pc = "stream"
  /\ Len(compressions) = 1
  /\ compressions[1].tokensBefore = maxContextTokens
  /\ Len(history) = 2
  /\ disk.history = history

\* C15: an audit FAIL appends exactly one user message, AUDIT FAILED with
\* the feedback, saves the session, leaves retries alone and goes back to the
\* head of the loop, where the next iteration calls the model unless the cap
\* is reached; the audit step never ends the loop with the retries-exhausted
\* or the cap outcome; and a run whose audit passes exits with code 0 even
\* after an earlier FAIL
C15_AuditFailContinues ==
  /\ [][/\ (pc = "audit" /\ pc' = "loopHead") =>
             /\ history' = Append(history,
                  Msg("user", <<"AUDIT FAILED. Please address the following issues:", "">>
                                \o AuditFeedback))
             /\ disk' = [history |-> history', taskList |-> taskList',
                         totalTokens |-> totalTokens', compressions |-> compressions']
             /\ retries' = retries
             /\ outcome' = ""
        /\ (pc = "audit" /\ pc' # "audit") =>
             \/ pc' = "loopHead"
             \/ pc' = "ended" /\ outcome' \in {"audit passed", "thrown: audit"}
        /\ (pc = "loopHead" /\ pc' # "loopHead") =>
             \/ pc' \in {"compress", "stream"} /\ loops < maxLoops
             \/ pc' = "ended" /\ outcome' = "capped" /\ loops >= maxLoops]_vars
  /\ []((pc = "exited" /\ outcome = "audit passed") => exitCode = 0)

\* a run that ended with exit code 0 after an audit FAIL and a later PASS
C15_Witness ==
  /\ pc = "exited"
  /\ exitCode = 0
  /\ outcome = "audit passed"
  /\ \E i \in 1..Len(history) :
       /\ history[i].role = "user"
       /\ Head(history[i].content) = "AUDIT FAILED. Please address the following issues:"
       /\ i < Len(history)

(***************************************************************************)
(* The command tool: properties                                            *)
(***************************************************************************)
EntriesOf(i) == {id \in DOMAIN processes : processes[id].process = i}

\* C8: every executeCommand call is resolved at most once, by the close
\* event, the timeout or the error event, whatever the order of the events;
\* an event after the resolution does not resolve again; and the registry
\* holds an entry for the call iff the timeout resolved it
C8_ResolvedOnce ==
  \A i \in 1..Len(invocations) :
    LET c == invocations[i]
    IN  /\ c.resolveCalls <= 1
        /\ c.resolved <=> (c.resolveCalls = 1)
        /\ c.resolved <=> (c.resolvedBy \in {"close", "timeout", "error"})
        /\ (c.resolvedBy = "timeout") <=> (EntriesOf(i) # {})
        /\ Cardinality(EntriesOf(i)) <= 1

\* a promoted call whose close event came after the resolution
C8_Witness ==
  \E i \in 1..Len(invocations) :
    /\ invocations[i].resolvedBy = "timeout"
    /\ invocations[i].proc = "closed"
    /\ invocations[i].resolveCalls = 1

\* C9: the timer firing on a call that is not resolved leaves the process
\* alone (no signal, no change of its state), adds an entry with the handle
\* and exitCode null, and returns "Backgrounded as: proc_"; and from then on,
\* until the close event, the entry is listed as Running
C9_TimeoutPromotes ==
  /\ [](\A i \in 1..Len(invocations) :
          invocations[i].resolvedBy = "timeout" =>
            /\ invocations[i].id \in DOMAIN processes
            /\ processes[invocations[i].id].process = i
            /\ invocations[i].result = "Backgrounded as: proc_"
            /\ invocations[i].proc # "closed" =>
                 /\ processes[invocations[i].id].exitCode = NullCode
                 /\ listBackgroundProcesses[invocations[i].id] = "Running")
  /\ [][\A i \in 1..Len(invocations) :
          (invocations[i].timer = "pending" /\ invocations'[i].timer = "fired") =>
            /\ invocations'[i].proc = invocations[i].proc
            /\ invocations'[i].signalled = invocations[i].signalled
            /\ invocations'[i].resolvedBy = "timeout"
            /\ Len(processes') = Len(processes) + 1]_vars

\* a promoted process that still runs and writes, listed as Running
C9_Witness ==
  \E i \in 1..Len(invocations) :
    /\ invocations[i].resolvedBy = "timeout"
    /\ invocations[i].proc = "running"
    /\ invocations[i].output > processes[invocations[i].id].output
    /\ listBackgroundProcesses[invocations[i].id] = "Running"

\* C10: once the close event of a promoted process was delivered, whether the
\* process ended by itself or after killBackgroundProcess, its entry holds a
\* non-null exit code, read and list report it as Exited and kill answers
\* that it has exited
C10_ExitCodeRecorded ==
  \A id \in DOMAIN processes :
    invocations[processes[id].process].proc = "closed" =>
      /\ processes[id].exitCode # NullCode
      /\ readBackgroundProcess(id)[1] # "Running"
      /\ listBackgroundProcesses[id] # "Running"
      /\ killBackgroundProcessResult(id, FALSE) # "Process killed"

\* C11: while a promoted process runs, readBackgroundProcess returns all the
\* output accumulated so far, the output written after the promotion included
C11_OutputCaptured ==
  \A id \in DOMAIN processes :
    invocations[processes[id].process].proc = "running" =>
      readBackgroundProcess(id)[2] = ToString(invocations[processes[id].process].output)

(***************************************************************************)
(* The auditor: properties                                                 *)
(***************************************************************************)
\* C13: no step of runAudit creates, modifies or deletes a file of the
\* working directory, whatever the audit model answers
C13_AuditReadOnly == [][workFiles' = workFiles]_vars

\* the parsed response runAudit returned on, when it returned on a DONE
AuditReturnedOnDone ==
  /\ auditPc = "returned"
  /\ auditLast # <<>>
  /\ parseResponse(auditLast[1]) # Null
  /\ parseResponse(auditLast[1]).toolChoice = "DONE"

\* C14 as claimed: the verdict of an audit response whose tool is DONE is
\* FAIL iff the input of DONE holds "fail" in any case, whatever the Thoughts
C14_VerdictFromDoneInput ==
  AuditReturnedOnDone =>
    (auditResult[1].passed <=>
       ~TextHas(parseResponse(auditLast[1]).toolInput, LineHasFail))

\* C14 as amended: the verdict is taken from the feedback, which is the
\* input of DONE when that is not empty and the Thoughts section otherwise:
\* FAIL iff the feedback holds "fail" in any case
C14_VerdictFromFeedback ==
  AuditReturnedOnDone =>
    LET parsed == parseResponse(auditLast[1])
        text == IF parsed.toolInput = <<>> THEN parsed.thoughts ELSE parsed.toolInput
    IN  /\ auditResult[1].feedback = text
        /\ auditResult[1].passed <=> (\A i \in 1..Len(text) : ~LineHasFail(text[i]))

\* an audit that returned FAIL on a DONE whose input says so in capitals
C14_Witness ==
  /\ AuditReturnedOnDone
  /\ parseResponse(auditLast[1]).toolInput = <<"Overall: FAIL">>
  /\ auditResult[1].passed = FALSE

\* C16: runAudit leaves history, taskList, totalTokens and compressions of
\* the session, and its file, as they were, however it ends; its dialogue is
\* in its own message list
C16_AuditLeavesSession ==
  [][/\ history' = history
     /\ taskList' = taskList
     /\ totalTokens' = totalTokens
     /\ compressions' = compressions
     /\ disk' = disk]_vars

\* an audit that returned FAIL after a tool call of its own
C16_Witness ==
  /\ auditPc = "returned"
  /\ auditResult[1].passed = FALSE
  /\ Len(auditMessages) >= 4
  /\ \A i \in 1..Len(history) : history[i] # auditMessages[2]

(***************************************************************************)
(* The session store: properties                                           *)
(***************************************************************************)
\* the file of the session last saved for dir
LastSavedFile(last, dir) == SessionFileName(last[dir][1].id)

\* what the claim expects of getLastSessionForDir(dir): <<v>>, or <<>> where
\* the file of the last saved session was damaged from outside
ExpectedLast(files, last, dir) ==
  IF last[dir] = <<>> THEN <<Null>>
  ELSE IF files[LastSavedFile(last, dir)] = Absent THEN <<Null>>
  ELSE IF files[LastSavedFile(last, dir)].kind = "session" THEN <<last[dir][1]>>
  ELSE <<>>

\* C17: after any createSession and saveSession calls (and sweeps),
\* getLastSessionForDir(D) is the session most recently saved with working
\* directory D, as it was saved, and null if none was saved for D or its
\* file is gone; dev --resume in D resumes that session and reports "No
\* previous session found" where there is none
C17_LastSessionForDir ==
  [][\A dir \in Dirs :
       LET expected == ExpectedLast(sessFiles', lastSaved', dir)
       IN  expected # <<>> =>
             /\ getLastSessionForDir(sessFiles', dir) = expected[1]
             /\ DevResume(dir) =>
                  cliOutcome' =
                    IF expected[1] = Null
                    THEN Outcome("No previous session found in this directory", "", <<>>)
                    ELSE Outcome("resumed", lastSaved'[dir][1].id, <<>>)]_vars

\* dev --resume resumed the session saved last for its directory while an
\* older session of the same directory is still stored
C17_Witness ==
  /\ cliOutcome.kind = "resumed"
  /\ live # <<>>
  /\ \E dir \in Dirs :
       /\ lastSaved[dir] # <<>>
       /\ lastSaved[dir][1].id = cliOutcome.id
       /\ live[1] = lastSaved[dir][1]
       /\ \E f \in FileNames :
            /\ sessFiles[f].kind = "session"
            /\ sessFiles[f].workingDirectory = dir
            /\ sessFiles[f].id # cliOutcome.id
            /\ sessFiles[f].updatedAt < live[1].updatedAt

\* the sweep of this step deleted the file f
Deleted(f) == sessFiles[f] # Absent /\ sessFiles'[f] = Absent

\* C18: a sweep deletes a file iff it parses as a session whose updatedAt is
\* older than sessionRetentionDays; directory-map.json, a younger session
\* and an unparseable file stay, and loadSession of a deleted id is null
C18_SweepDeletesOld ==
  [][sweeps' # sweeps =>
       \A f \in FileNames :
         /\ Deleted(f) <=>
              /\ f # MapFileName
              /\ sessFiles[f].kind = "session"
              /\ sessFiles[f].updatedAt < now - sessionRetentionDays
         /\ (f = MapFileName \/ sessFiles[f] = Corrupt) => ~Deleted(f)
         /\ \A k \in 1..MaxSessions :
              (f = SessionFileName(NewId(k)) /\ Deleted(f)) =>
                 loadSession(sessFiles', NewId(k)) = Null]_vars

\* a sweep has deleted one session and left an unparseable file and the map
C18_Witness ==
  /\ sessFiles[MapFileName] # Absent
  /\ \E k \in 1..nextId : sessFiles[SessionFileName(NewId(k))] = Absent
  /\ \E f \in FileNames : sessFiles[f] = Corrupt

\* the content of f is no session
Damaged(files, f) == f # MapFileName /\ files[f] \in {Corrupt, EmptyObject}

\* C19: a session file whose content is corrupt is as if it did not exist:
\* loadSession is null for it, listSessions omits it, cleanOldSessions
\* leaves it, and no command ends with an uncaught exception
C19_CorruptNeverCrashes ==
  /\ cliOutcome.kind # "uncaught"
  /\ \A k \in 1..MaxSessions :
       Damaged(sessFiles, SessionFileName(NewId(k))) =>
         /\ loadSession(sessFiles, NewId(k)) = Null
         /\ SessionFileName(NewId(k)) \notin ListedNames(sessFiles)
         /\ cleanOldSessions(sessFiles, now)[SessionFileName(NewId(k))]
              = sessFiles[SessionFileName(NewId(k))]

(***************************************************************************)
(* parseResponse: properties                                               *)
(***************************************************************************)
\* C20: parseResponse returns null iff its argument holds no marker or no
\* tool call is begun in the slice from the last marker on; otherwise it
\* returns a response with at least one tool, one for each call begun, and
\* every tool name is one of the eleven names
C20_NullIffNoTool ==
  parse.pc = "returned" =>
    /\ parse.result[1] = Null <=>
         (LastMarkerLine(parse.fullResponse) = 0 \/ parse.assembled = 0)
    /\ parse.result[1] # Null =>
         /\ Len(parse.result[1].tools) >= 1
         /\ Len(parse.result[1].tools) = parse.assembled
         /\ \A i \in 1..Len(parse.result[1].tools) :
              parse.result[1].tools[i].toolChoice \in TOOL_NAMES
    /\ parse.result[1] = parseResponse(parse.fullResponse)

\* a response with lines before its last marker was parsed into a tool
\* whose name was written in small letters
C20_Witness ==
  /\ parse.pc = "returned"
  /\ parse.result[1] # Null
  /\ parse.result[1].tools = <<[toolChoice |-> "DONE", toolInput |-> <<>>]>>
  /\ LastMarkerLine(parse.fullResponse) > 1

\* the lines of a response that hold the marker
MarkerLines(r) == {i \in 1..Len(r) : HasMarker(r[i])}

\* C21: where the marker occurs once in r and p holds no marker,
\* parseResponse(p + r) = parseResponse(r): the same thoughts, task list,
\* tools and raw slice. The response parsed is p + r for every r that starts
\* at a line up to the marker's, or at the marker inside its line
C21_PrefixIgnored ==
  (parse.pc = "returned" /\ Cardinality(MarkerLines(parse.fullResponse)) = 1) =>
    LET pr == parse.fullResponse
        k == LastMarkerLine(pr)
    IN  /\ \A j \in 1..k : parse.result[1] = parseResponse(SubSeq(pr, j, Len(pr)))
        /\ parse.result[1] = parseResponse(<<marker>> \o SubSeq(pr, k + 1, Len(pr)))

\* a response was parsed into a tool, after a prefix that names a tool too
C21_Witness ==
  /\ parse.pc = "returned"
  /\ Cardinality(MarkerLines(parse.fullResponse)) = 1
  /\ LastMarkerLine(parse.fullResponse) = 3
  /\ parse.fullResponse[1] = "## Tool Choice"
  /\ parse.fullResponse[2] = "done"
  /\ parse.result[1] # Null
  /\ Len(parse.result[1].tools) = 1

\* the lines of a text that start with "## Tool Choice"
RECURSIVE ToolChoiceLines(_)
ToolChoiceLines(text) ==
  IF text = <<>> THEN 0
  ELSE (IF StartsWithToolChoice(Head(text)) THEN 1 ELSE 0) + ToolChoiceLines(Tail(text))

\* C22: a response with k "## Tool Choice" sections, each naming a tool and
\* followed by its "## Tool Input", is parsed into k tools, named as the
\* sections are and in their order
C22_ToolsInOrder ==
  (/\ parse.pc = "returned" /\ parse.sections # <<>>
   /\ ToolChoiceLines(parse.fullResponse) = Len(parse.sections)) =>
    /\ parse.result[1] # Null
    /\ Len(parse.result[1].tools) = Len(parse.sections)
    /\ \A i \in 1..Len(parse.sections) :
         parse.result[1].tools[i].toolChoice = TrimUpper(parse.sections[i].name)

\* two sections that name different tools were parsed into two tools
C22_Witness ==
  /\ parse.pc = "returned"
  /\ Len(parse.sections) = 2
  /\ ToolChoiceLines(parse.fullResponse) = 2
  /\ parse.sections[1].input = InputNested
  /\ parse.sections[1].name = "WRITE_FILE"
  /\ parse.sections[2].name = "done"
  /\ parse.result[1] # Null
  /\ parse.result[1].tools[1].toolChoice = "WRITE_FILE"
  /\ parse.result[1].tools[2].toolChoice = "DONE"

\* the fence state after the lines of a text, read from outside any fence
RECURSIVE FenceAfter(_, _)
FenceAfter(st, text) ==
  IF text = <<>> THEN st ELSE FenceAfter(TrackFence(st, Head(text)), Tail(text))

IsHeader(l) ==
  StartsWithThoughts(l) \/ StartsWithTaskList(l) \/ StartsWithToolChoice(l) \/ StartsWithToolInput(l)

\* the text has a header line between an opening fence and its closing fence
HeaderInClosedFence(text) ==
  /\ ~FenceAfter(ParserInit, text).inCodeBlock
  /\ \E i \in 1..Len(text) :
       IsHeader(text[i]) /\ FenceAfter(ParserInit, SubSeq(text, 1, i)).inCodeBlock

\* C23: a header line between the opening and the closing fence of a code
\* block of a tool's input is no header: it stays in that tool's input, and
\* neither ends the tool nor begins another
C23_HeadersInFenceAreInput ==
  (parse.pc = "returned" /\ parse.sections # <<>>) =>
    \A i \in 1..Len(parse.sections) :
      HeaderInClosedFence(parse.sections[i].input) =>
        /\ parse.result[1] # Null
        /\ Len(parse.result[1].tools) = Len(parse.sections)
        /\ parse.result[1].tools[i].toolInput = Trim(parse.sections[i].input)

\* the tools once the tool under way is finalized
ToolsWithPending(st) ==
  IF st.currentTool = NoTool THEN st.tools
  ELSE Append(st.tools, [toolChoice |-> st.currentTool, toolInput |-> Trim(st.currentInput)])

TurnHitError ==
  /\ toolResults # <<>>
  /\ Len(executed) = Len(toolResults)
  /\ toolResults[Len(toolResults)] \in
       {FormatResult(executed[Len(executed)], "ERROR: failed"),
        FormatResult(executed[Len(executed)], "ERROR: boom")}

\* C27: once a tool of a parsed response has given an error result (returned,
\* or thrown by executeTool and converted), no later tool of that response is
\* executed, a later DONE included, so the turn reaches no audit; and the
\* results collected so far are appended as the turn's one tool-results
\* user message.
C27_ErrorStopsTurn ==
  [][/\ TurnHitError' =>
          /\ pc' \notin {"tools", "audit"}
          /\ ~hitDone'
          /\ ti' = Len(executed') /\ ti' <= Len(parsedTools')
          /\ \A i \in 1..ti' : executed'[i] = parsedTools'[i].toolChoice
     /\ (TurnHitError /\ pc = "afterTools") =>
          /\ history' = Append(history, Msg("user", ToolResultsContent(toolResults)))
          /\ toolResults' = toolResults /\ executed' = executed]_vars

\* a COMMAND failed before a DONE of the same response, and its result is
\* the last message of the history
C27_Witness ==
  /\ TurnHitError
  /\ pc \in {"loopHead", "thinking"}
  /\ \E j \in 1..Len(parsedTools) : j > ti /\ parsedTools[j].toolChoice = "DONE"
  /\ \E i \in 1..Len(history) :
       history[i] = Msg("user", ToolResultsContent(toolResults))

\* the messages the current iteration has appended: the history beyond the
\* messages sent with its model call
TurnAdded == SubSeq(history, Len(sent[1]) + 1, Len(history))

\* the last main-loop model call returned a response of the given kind, and
\* no compression has rewritten the history
TurnOf(kind) ==
  /\ compressions = <<>>
  /\ callLog # <<>> /\ Last(callLog) = kind
  /\ sent # <<>>

RECURSIVE CountRole(_, _)
CountRole(msgs, role) ==
  IF msgs = <<>> THEN 0
  ELSE (IF msgs[1].role = role THEN 1 ELSE 0) + CountRole(Tail(msgs), role)

\* the session handed to runAgentLoop: the longest stored history whose
\* form after loop.ts 24-28 starts the history
StoredAtStart ==
  IF pc = "entry" THEN history
  ELSE LET fits == {h \in StoredHistories :
                      LET e == EnsureSystemPrompt(h, systemPrompt(automated))
                      IN  Len(e) <= Len(history) /\ SubSeq(history, 1, Len(e)) = e}
       IN  CHOOSE h \in fits : \A g \in fits : Len(g) <= Len(h)

\* the messages the run has added to the session it was handed
Grown == Len(history) - Len(StoredAtStart)

IsToolResultsMsg(m) ==
  toolResults # <<>> /\ m = Msg("user", ToolResultsContent(toolResults))

IsReasoningMsg(m) ==
  /\ thinkingEnabled /\ ~hitDone
  /\ m.role = "assistant" /\ m.content # <<>> /\ m.content[1] = "[Internal Reasoning]"

IsAuditFailedMsg(m) == hitDone /\ m = Msg("user", AuditFailedContent(AuditFeedback))

StreamFailureStep ==
  \/ pc = "stream" /\ callLog' = Append(callLog, "transport")
  \/ pc = "compress" /\ pc' # "compress" /\ compressions' = compressions
  \/ pc = "audit" /\ outcome' = "thrown: audit"

\* C29: a failure of any model stream issued while the loop runs, the main
\* completion, the compressor's call or an auditor's call, costs one retry
\* and the loop continues; it ends the run only when the retries have
\* reached the maximum.
C29_EveryStreamFailureRetries ==
  [][StreamFailureStep =>
       /\ retries' = retries + 1
       /\ IF retries' >= MaxRetriesFor(automated)
          THEN pc' = "ended"
          ELSE pc' = "loopHead" /\ outcome' = outcome]_vars

\* C30: on a malformed response the loop appends exactly two messages, the
\* raw response as assistant and then the fixed format complaint as user,
\* saves the session, leaves the task list alone, executes no tool and adds
\* one to retries; the two messages are appended and saved also when this
\* failure is the one that exhausts the retries.
C30_MalformedFrame ==
  [][(pc = "stream" /\ callLog' = Append(callLog, "malformed")) =>
       /\ \E response \in Responses :
            /\ parseResponse(response) = Null
            /\ history' = history \o <<Msg("assistant", response),
                                       Msg("user", formatComplaint)>>
       /\ disk' = SessionFile(history', taskList', totalTokens', compressions')
       /\ taskList' = taskList
       /\ executed' = executed /\ toolResults' = toolResults
       /\ workFiles' = workFiles /\ invocations' = invocations
       /\ retries' = retries + 1
       /\ pc' = IF retries' >= MaxRetriesFor(automated) THEN "ended" ELSE "loopHead"]_vars

\* the malformed response that exhausted the retries, after a turn that set
\* a task list: its two messages end the history and the file
C30_Witness ==
  /\ outcome = "thrown: parse"
  /\ retries = MaxRetriesFor(automated)
  /\ taskList # <<>>
  /\ Len(history) >= 2
  /\ history[Len(history)] = Msg("user", formatComplaint)
  /\ history[Len(history) - 1].role = "assistant"
  /\ disk.history = history

\* a step of runAudit in which the audit model answered with a response
\* that does not parse
AuditProseStep ==
  /\ auditPc = "stream"
  /\ auditLast' # <<>>
  /\ auditPc' # "threw"
  /\ parseResponse(auditLast'[1]) = Null

\* C31: on an audit response that does not parse the verdict is PASS when
\* the text holds "overall: pass" in any case, FAIL when it holds "overall:
\* fail" and not "overall: pass", and PASS when it holds neither; runAudit
\* returns at that response, and no tool is executed for it.
C31_ProseVerdict ==
  [][AuditProseStep =>
       LET response == auditLast'[1]
           pass == \E i \in 1..Len(response) : LineHasOverallPass(response[i])
           fail == \E i \in 1..Len(response) : LineHasOverallFail(response[i])
       IN  /\ auditPc' = "returned"
           /\ auditResult' = <<[passed |-> (pass \/ ~fail), feedback |-> response]>>
           /\ auditMessages' = auditMessages
           /\ workFiles' = workFiles
           /\ invocations' = invocations /\ processes' = processes]_vars

\* an audit that passed on a prose response holding both verdicts, after a
\* tool call of its own
C31_Witness ==
  /\ auditPc = "returned"
  /\ auditLast = <<<<"Overall: FAIL", "fixed since, overall: pass">>>>
  /\ auditResult[1].passed
  /\ Len(auditMessages) >= 3

\* a step of runAudit in which the audit model answered with a response
\* that parses
AuditParsedStep ==
  /\ auditPc = "stream"
  /\ auditLast' # <<>>
  /\ auditPc' # "threw"
  /\ parseResponse(auditLast'[1]) # Null

\* the commands of the audit responses that match no pattern of the
\* allow-list (command.ts 88-91)
UnlistedCommands == {<<"rm a.txt">>}

\* the tools runAudit has a case for (part_008 46-62)
AuditTools == {"LIST_DIRECTORY", "READ_FILE", "COMMAND", "DONE"}

\* the iteration went on after a refusal: nothing was run, and the response
\* and the text of the refusal are the two messages added
AuditRefused(parsed, text) ==
  /\ workFiles' = workFiles
  /\ invocations' = invocations /\ processes' = processes
  /\ auditMessages' = auditMessages \o <<Msg("assistant", parsed.raw),
                                         Msg("user", <<"Tool result:">> \o text)>>
  /\ auditPc' = "loopHead"
  /\ auditResult' = auditResult

\* C32: in an audit a COMMAND that matches no pattern of the allow-list is
\* not run and gives "ERROR: Command not allowed in audit mode: <cmd>"; a
\* tool other than LIST_DIRECTORY, READ_FILE, COMMAND and DONE is not run and
\* gives "Tool <name> not available in audit mode"; the audit goes on with
\* its next iteration in both cases, and only the first tool of a response
\* is looked at.
C32_AuditRefusals ==
  [][AuditParsedStep =>
       LET parsed == parseResponse(auditLast'[1])
           first == parsed.tools[1]
           cmd == extractCommandInput(first.toolInput)
       IN  /\ (first.toolChoice = "COMMAND" /\ cmd \in UnlistedCommands) =>
                AuditRefused(parsed,
                  <<"ERROR: Command not allowed in audit mode: " \o cmd[1]>>)
           /\ first.toolChoice \notin AuditTools =>
                AuditRefused(parsed,
                  <<"Tool " \o first.toolChoice \o " not available in audit mode">>)
           /\ first.toolChoice # "DONE" => auditPc' = "loopHead"]_vars

\* an audit went on after refusing the first tool of a response whose
\* second tool is DONE, and after refusing a WRITE_FILE
C32_Witness ==
  /\ auditPc = "loopHead"
  /\ auditLast # <<>>
  /\ Len(parseResponse(auditLast[1]).tools) = 2
  /\ parseResponse(auditLast[1]).tools[2].toolChoice = "DONE"
  /\ auditResult = <<>>
  /\ workFiles["a.txt"] # <<>>
  /\ Len(auditMessages) = 5
  /\ auditMessages[3] = Msg("user", <<"Tool result:", "Tool WRITE_FILE not available in audit mode">>)
  /\ auditMessages[5] = Msg("user", <<"Tool result:", "ERROR: Command not allowed in audit mode: rm a.txt">>)

\* the model calls runAudit has made and got a tool from: each added an
\* assistant and a user message to the prompt
AuditToolCalls == (Len(auditMessages) - 1) \div 2

\* runAudit about to make a model call has made fewer than the bound, and
\* runAudit that returned after as many tool calls as the bound returned
\* the PASS of the exhausted loop
AuditCallsBounded ==
  /\ auditPc = "stream" => AuditToolCalls < auditMaxLoops
  /\ auditPc \in {"loopHead", "returned", "threw"} => AuditToolCalls <= auditMaxLoops
  /\ (/\ auditPc = "returned"
      /\ AuditToolCalls = auditMaxLoops
      /\ auditMessages[Len(auditMessages)].role = "user") =>
       auditResult = <<[passed |-> TRUE,
                        feedback |-> <<"Audit completed (max iterations reached)">>]>>

\* C33: runAudit makes at most as many model calls as the bound of its loop
\* (20 in the source); when every call returns it returns a verdict, and
\* when the bound is reached without a DONE and without a response that does
\* not parse the verdict is PASS, "max iterations reached".
C33_AuditTerminates ==
  /\ []AuditCallsBounded
  /\ <>(auditPc = "threw" \/ (auditPc = "returned" /\ auditResult # <<>>))

\* the audit that used up its iterations on tool calls
C33_Witness ==
  /\ auditPc = "returned"
  /\ AuditToolCalls = auditMaxLoops
  /\ auditLoops = auditMaxLoops + 1
  /\ auditResult = <<[passed |-> TRUE,
                      feedback |-> <<"Audit completed (max iterations reached)">>]>>

\* line.startsWith('## ') for a line that is none of the four headers
IsOtherHeader(l) == l \in {"## Notes"}

\* C34: outside a code block a line that starts with "## " and is none of
\* the four headers ends the current section and finalizes the pending
\* tool; the lines after it are added to nothing until a recognized header
\* is seen.
C34_OtherHeaderEndsSection ==
  [][(/\ parse.pc = "lines" /\ parse'.pc = "lines"
      /\ parse.lines # <<>>
      /\ ~parse.st.inCodeBlock) =>
       /\ IsOtherHeader(Head(parse.lines)) =>
            parse'.st = [finishCurrentTool(parse.st) EXCEPT !.currentSection = ""]
       /\ (parse.st.currentSection = "" /\ ~IsHeader(Head(parse.lines))) =>
            /\ parse'.st.thoughts = parse.st.thoughts
            /\ parse'.st.taskList = parse.st.taskList
            /\ parse'.st.tools = parse.st.tools
            /\ parse'.st.currentInput = parse.st.currentInput]_vars

C36_PromptInFirstRequest ==
  (automated /\ Len(callLog) = 1 /\ sent # <<>>) =>
    \E i \in 1..Len(sent[1]) : sent[1][i] = Msg("user", originalPrompt)

\* C39: after a compression the estimate of session.history is below
\* maxContextTokens, so the model call that follows is made under the
\* ceiling, and no iteration compresses a history that the iteration before
\* it had compressed.
C39_CompressionGetsBelowCeiling ==
  [][/\ (pc = "compress" /\ pc' = "stream") =>
          estimateTokens(history') < maxContextTokens
     /\ (pc = "stream" /\ callLog' # callLog) =>
          estimateTokens(sent'[1]) < maxContextTokens]_vars

\* C37: the input of a parsed tool holds only lines of the "## Tool Input"
\* sections that follow its own "## Tool Choice": where a tool call is begun
\* no input is pending, neither from a Tool Input section before any Tool
\* Choice nor from one of a Tool Choice section that named no tool, and the
\* lines added to the input of a tool are read while it is the current one.
C37_InputIsOwn ==
  [][(parse.pc = "lines" /\ parse'.pc = "lines") =>
       /\ (parse.st.currentTool = NoTool /\ parse'.st.currentTool # NoTool) =>
            parse'.st.currentInput = <<>>
       /\ (Len(parse'.st.tools) = Len(parse.st.tools) + 1) =>
            /\ parse.st.currentTool # NoTool
            /\ parse'.st.tools[Len(parse'.st.tools)].toolInput = Trim(parse.st.currentInput)]_vars

\* a step of killBackgroundProcess that reached kill(): the process of an
\* invocation is signalled
KillStep ==
  \E i \in 1..Len(invocations) : invocations'[i].signalled # invocations[i].signalled

\* C38: the registry holds one entry for every executeCommand call that the
\* timeout promoted and none for a call that completed or failed to spawn
\* first; the ids of the entries differ pairwise; no step removes an entry
\* or puts another in its place, and read, list and kill, which are the
\* steps that do not belong to an executeCommand call, leave the registry
\* as it is.
C38_RegistryEntries ==
  /\ [](\A i \in 1..Len(invocations) :
          Cardinality(EntriesOf(i)) =
            IF invocations[i].resolvedBy = "timeout" THEN 1 ELSE 0)
  /\ [](\A j, k \in DOMAIN processes : j # k => processes[j].id # processes[k].id)
  /\ [][/\ Len(processes') >= Len(processes)
        /\ \A k \in DOMAIN processes :
             /\ processes'[k].id = processes[k].id
             /\ processes'[k].process = processes[k].process
        /\ KillStep => processes' = processes]_vars

\* two entries for two promoted calls, one of them killed and closed, and
\* before that a registry with one promoted and one completed call
C38_Witness ==
  /\ Len(invocations) = 2
  /\ Len(processes) = 2
  /\ processes[1].id # processes[2].id
  /\ invocations[1].signalled
  /\ invocations[1].proc = "closed"
  /\ invocations[2].resolvedBy = "timeout"

\* one promoted call and one that completed before its timeout: one entry
C38_WitnessCompleted ==
  /\ Len(invocations) = 2
  /\ invocations[1].resolvedBy = "timeout"
  /\ invocations[2].resolvedBy \in {"close", "error"}
  /\ Len(processes) = 1

\* the content values of the "data: " lines of a body, in the order of the lines
RECURSIVE ContentsOfLines(_)
ContentsOfLines(lines) ==
  IF lines = <<>> THEN ""
  ELSE LineContent(Head(lines)) \o ContentsOfLines(Tail(lines))

\* C40: for a 2xx response, streamCompletion returns the concatenation, in
\* the order of the lines, of the content values of all the "data: " lines of
\* the body, the last line included, however the body was split into reads;
\* "[DONE]" lines and lines whose JSON does not parse add nothing.
C40_StreamReturnsAllContents ==
  (stream.pc = "returned" /\ stream.ok) =>
    stream.fullContent = ContentsOfLines(SplitLines(stream.body))

\* the same for the lines of the body that a line feed ends
C40_TerminatedLines ==
  (stream.pc = "returned" /\ stream.ok) =>
    LET lines == SplitLines(stream.body)
    IN  stream.fullContent = ContentsOfLines(SubSeq(lines, 1, Len(lines) - 1))

====
